---- MODULE Spec2Model ----
(***************************************************************************)
(* A model of go-acl's matching engine: the IP matcher (pkg/ip), the two   *)
(* domain matchers of pkg/domain (DomainACL and DomainAcl) and the         *)
(* predefined range catalog.                                               *)
(*                                                                         *)
(* A Go string is modelled as a sequence of one-character strings, so that *)
(* trimming, prefix tests, indexing and parsing are computed character by  *)
(* character as the code (and the standard library it calls) computes them.*)
(* A Go byte slice is a sequence of numbers 0..255; a nil slice is <<>>.   *)
(***************************************************************************)
EXTENDS Integers, Sequences, FiniteSets, TLC

VARIABLES
    ipacl,     \* the *IPAcl under test: NilAcl or [ranges, listType]
    dACL,      \* the *DomainACL under test (first matcher of pkg/domain)
    dAcl,      \* the *DomainAcl under test (second matcher of pkg/domain)
    last,      \* the last call made: its name, arguments, results and the receiver before it
    mapOrder,  \* the order in which init() ranged over the PredefinedSets map literal
    inputs,    \* the texts and set names this run's calls draw their arguments from
    handed,    \* the slice a getter returned to the caller, who still holds it
    listFile,  \* the list file the matcher is saved to and loaded from
    mu,        \* the Manager's sync.RWMutex
    procs      \* the goroutines calling the Manager: where each is in its call

vars == <<ipacl, dACL, dAcl, last, mapOrder, inputs, handed, listFile, mu, procs>>

-----------------------------------------------------------------------------
(* Bounds of the model.                                                    *)

\* a mutating call is only issued while the list holds fewer entries than this
MaxRanges == 2
\* the longest argument list passed to a variadic call or a constructor
MaxArgs == 2

-----------------------------------------------------------------------------
(* package strings                                                         *)

Min(a, b) == IF a < b THEN a ELSE b

\* the elements of a sequence
Range(s) == {s[i] : i \in 1..Len(s)}

\* s[lo:hi] of Go (0-based, hi exclusive)
Slice(s, lo, hi) == SubSeq(s, lo + 1, hi)

\* s[lo:]
SliceFrom(s, lo) == SubSeq(s, lo + 1, Len(s))

IsSpace(c) == c \in {" ", "\t", "\n", "\r"}

RECURSIVE TrimLeft(_)
TrimLeft(s) ==
    IF s # <<>> /\ IsSpace(Head(s)) THEN TrimLeft(Tail(s)) ELSE s

RECURSIVE TrimRight(_)
TrimRight(s) ==
    IF s # <<>> /\ IsSpace(s[Len(s)]) THEN TrimRight(SubSeq(s, 1, Len(s) - 1)) ELSE s

TrimSpace(s) == TrimRight(TrimLeft(s))

HasPrefix(s, p) == Len(s) >= Len(p) /\ SubSeq(s, 1, Len(p)) = p

HasSuffix(s, p) == Len(s) >= Len(p) /\ SubSeq(s, Len(s) - Len(p) + 1, Len(s)) = p

TrimPrefix(s, p) == IF HasPrefix(s, p) THEN SliceFrom(s, Len(p)) ELSE s

\* the 0-based indexes at which sub occurs in s
Occurrences(s, sub) ==
    {i \in 0..(Len(s) - Len(sub)) : Slice(s, i, i + Len(sub)) = sub}

SetMin(S) == CHOOSE x \in S : \A y \in S : x <= y

SetMax(S) == CHOOSE x \in S : \A y \in S : x >= y

Index(s, sub) == IF Occurrences(s, sub) = {} THEN -1 ELSE SetMin(Occurrences(s, sub))

LastIndex(s, sub) == IF Occurrences(s, sub) = {} THEN -1 ELSE SetMax(Occurrences(s, sub))

Contains(s, sub) == Occurrences(s, sub) # {}

UpperLetters == <<"A","B","C","D","E","F","G","H","I","J","K","L","M",
                  "N","O","P","Q","R","S","T","U","V","W","X","Y","Z">>

LowerLetters == <<"a","b","c","d","e","f","g","h","i","j","k","l","m",
                  "n","o","p","q","r","s","t","u","v","w","x","y","z">>

ToLowerChar(c) ==
    IF \E i \in 1..Len(UpperLetters) : UpperLetters[i] = c
    THEN LowerLetters[CHOOSE i \in 1..Len(UpperLetters) : UpperLetters[i] = c]
    ELSE c

ToLower(s) == [i \in 1..Len(s) |-> ToLowerChar(s[i])]

\* the fields of s between the occurrences of the character sep
RECURSIVE Split(_, _)
Split(s, sep) ==
    LET i == Index(s, <<sep>>)
    IN  IF i = -1 THEN <<s>>
        ELSE <<Slice(s, 0, i)>> \o Split(SliceFrom(s, i + 1), sep)

-----------------------------------------------------------------------------
(* package net, as called by pkg/ip                                        *)

IPv4len == 4
IPv6len == 16

v4InV6Prefix == <<0, 0, 0, 0, 0, 0, 0, 0, 0, 0, 255, 255>>

Zeros(n) == [i \in 1..n |-> 0]

DecDigits == <<"0","1","2","3","4","5","6","7","8","9">>

HexDigits == <<"0","1","2","3","4","5","6","7","8","9","a","b","c","d","e","f">>

IsDigit(c) == \E i \in 1..10 : DecDigits[i] = c

IsHexDigit(c) == \E i \in 1..16 : HexDigits[i] = ToLowerChar(c)

HexVal(c) == (CHOOSE i \in 1..16 : HexDigits[i] = ToLowerChar(c)) - 1

AllDigits(s) == \A i \in 1..Len(s) : IsDigit(s[i])

\* dtoi: the decimal value of a digit string, saturating at 0xFFFFFF
RECURSIVE DecVal(_)
DecVal(s) ==
    IF s = <<>> THEN 0
    ELSE Min(16777215, 10 * DecVal(SubSeq(s, 1, Len(s) - 1)) + HexVal(s[Len(s)]))

RECURSIVE HexGroupVal(_)
HexGroupVal(s) ==
    IF s = <<>> THEN 0
    ELSE 16 * HexGroupVal(SubSeq(s, 1, Len(s) - 1)) + HexVal(s[Len(s)])

\* one decimal field of a dotted quad: digits, no leading zero, at most 255
IsV4Field(f) ==
    /\ Len(f) >= 1
    /\ Len(f) <= 3
    /\ AllDigits(f)
    /\ (Len(f) > 1 => f[1] # "0")
    /\ DecVal(f) <= 255

\* parseIPv4: the four bytes of a dotted quad, or <<>>
parseIPv4(s) ==
    LET quad(f) ==
            IF Len(f) = 4 /\ \A i \in 1..4 : IsV4Field(f[i])
            THEN [i \in 1..4 |-> DecVal(f[i])]
            ELSE <<>>
    IN  quad(Split(s, "."))

\* one colon-separated group of an IPv6 address: 1 to 4 hex digits
IsHexGroup(g) ==
    /\ Len(g) >= 1
    /\ Len(g) <= 4
    /\ \A i \in 1..Len(g) : IsHexDigit(g[i])

RECURSIVE GroupBytes(_)
GroupBytes(gs) ==
    IF gs = <<>> THEN <<>>
    ELSE <<HexGroupVal(Head(gs)) \div 256, HexGroupVal(Head(gs)) % 256>>
             \o GroupBytes(Tail(gs))

\* the bytes of a run of groups whose last group may be a dotted quad when
\* tail4 allows it; <<-1>> when the run is malformed
RunBytes(gs, tail4) ==
    IF gs = <<>> THEN <<>>
    ELSE LET n    == Len(gs)
             init == SubSeq(gs, 1, n - 1)
             lst  == gs[n]
             quadTail(v4) ==
                 IF tail4 /\ v4 # <<>> THEN GroupBytes(init) \o v4 ELSE <<-1>>
         IN  IF \E i \in 1..(n - 1) : ~IsHexGroup(init[i]) THEN <<-1>>
             ELSE IF IsHexGroup(lst) THEN GroupBytes(gs)
             ELSE quadTail(parseIPv4(lst))

\* parseIPv6: the sixteen bytes of an IPv6 text (with at most one "::" and an
\* optional trailing dotted quad), or <<>>
parseIPv6(s) ==
    LET whole(b) == IF b # <<-1>> /\ Len(b) = IPv6len THEN b ELSE <<>>
        run(t, tail4) == IF t = <<>> THEN <<>> ELSE RunBytes(Split(t, ":"), tail4)
        joined(lb, rb) ==
            IF lb # <<-1>> /\ rb # <<-1>> /\ Len(lb) + Len(rb) < IPv6len
            THEN lb \o Zeros(IPv6len - Len(lb) - Len(rb)) \o rb
            ELSE <<>>
        groups(gs) == whole(RunBytes(gs, Len(gs) = 7))
        at(e) ==
            IF e = -1 THEN groups(Split(s, ":"))
            ELSE joined(run(Slice(s, 0, e), FALSE), run(SliceFrom(s, e + 2), TRUE))
    IN  at(Index(s, <<":", ":">>))

\* netip.ParseAddr: [bitlen, a16] (bitlen 0 when the text is no address); the
\* first '.', ':' or '%' of the text selects the family
ParseAddr(s) ==
    LET marks == {i \in 1..Len(s) : s[i] \in {".", ":", "%"}}
        first == IF marks = {} THEN "" ELSE s[SetMin(marks)]
        parsed(v4, v6) ==
            IF first = "." /\ v4 # <<>> THEN [bitlen |-> 32, a16 |-> v4InV6Prefix \o v4]
            ELSE IF first = ":" /\ v6 # <<>> THEN [bitlen |-> 128, a16 |-> v6]
            ELSE [bitlen |-> 0, a16 |-> <<>>]
    IN  parsed(parseIPv4(s), parseIPv6(s))

\* net.ParseIP: always the 16-byte form, nil when s is no address
ParseIP(s) == ParseAddr(s).a16

\* IP.To4: the 4-byte form of an IPv4 or IPv4-mapped address, else nil
To4(ip) ==
    IF Len(ip) = IPv4len THEN ip
    ELSE IF Len(ip) = IPv6len /\ SubSeq(ip, 1, 12) = v4InV6Prefix THEN SubSeq(ip, 13, 16)
    ELSE <<>>

RECURSIVE Pow2(_)
Pow2(n) == IF n = 0 THEN 1 ELSE 2 * Pow2(n - 1)

\* a & b on bytes
RECURSIVE AndBits(_, _, _)
AndBits(a, b, n) ==
    IF n = 0 THEN 0
    ELSE (a % 2) * (b % 2) + 2 * AndBits(a \div 2, b \div 2, n - 1)

\* the mask bytes 255 and 0 need no bit-by-bit work
ByteAnd(a, b) == IF b = 255 THEN a ELSE IF b = 0 THEN 0 ELSE AndBits(a, b, 8)

\* net.CIDRMask(ones, bits)
CIDRMask(ones, bits) ==
    [i \in 1..(bits \div 8) |->
        LET n == ones - 8 * (i - 1)
        IN  IF n >= 8 THEN 255
            ELSE IF n <= 0 THEN 0
            ELSE 255 - (Pow2(8 - n) - 1)]

\* IP.Mask(mask)
IPMask(ip, mask) ==
    LET m == IF Len(mask) = IPv6len /\ Len(ip) = IPv4len
                  /\ \A i \in 1..12 : mask[i] = 255
             THEN SubSeq(mask, 13, 16) ELSE mask
        p == IF Len(m) = IPv4len /\ Len(ip) = IPv6len
                  /\ SubSeq(ip, 1, 12) = v4InV6Prefix
             THEN SubSeq(ip, 13, 16) ELSE ip
    IN  IF Len(p) # Len(m) THEN <<>>
        ELSE [i \in 1..Len(p) |-> ByteAnd(p[i], m[i])]

\* a nil *net.IPNet
NilIPNet == [IP |-> <<>>, Mask |-> <<>>, isNil |-> TRUE]

\* net.ParseCIDR: [ok, IP, IPNet]
ParseCIDR(s) ==
    LET bad == [ok |-> FALSE, IP |-> <<>>, IPNet |-> NilIPNet]
        network(a, m) ==
            [ok |-> TRUE, IP |-> a.a16,
             IPNet |-> [IP |-> IPMask(a.a16, m), Mask |-> m, isNil |-> FALSE]]
        prefix(a, mask) ==
            IF a.bitlen = 0 \/ mask = <<>> \/ ~AllDigits(mask) \/ DecVal(mask) > a.bitlen
            THEN bad
            ELSE network(a, CIDRMask(DecVal(mask), a.bitlen))
        cut(i) ==
            IF i = -1 THEN bad
            ELSE prefix(ParseAddr(Slice(s, 0, i)), SliceFrom(s, i + 1))
    IN  cut(Index(s, <<"/">>))

\* networkNumberAndMask of package net
networkNumberAndMask(n) ==
    LET ip == IF To4(n.IP) # <<>> THEN To4(n.IP)
              ELSE IF Len(n.IP) = IPv6len THEN n.IP ELSE <<>>
    IN  IF ip = <<>> THEN [ip |-> <<>>, m |-> <<>>]
        ELSE IF Len(n.Mask) = IPv4len
             THEN IF Len(ip) # IPv4len THEN [ip |-> <<>>, m |-> <<>>]
                  ELSE [ip |-> ip, m |-> n.Mask]
        ELSE IF Len(n.Mask) = IPv6len
             THEN IF Len(ip) = IPv4len THEN [ip |-> ip, m |-> SubSeq(n.Mask, 13, 16)]
                  ELSE [ip |-> ip, m |-> n.Mask]
        ELSE [ip |-> <<>>, m |-> <<>>]

\* (*IPNet).Contains(ip)
IPNetContains(n, ip0) ==
    LET nm == networkNumberAndMask(n)
        ip == IF To4(ip0) # <<>> THEN To4(ip0) ELSE ip0
    IN  /\ Len(ip) = Len(nm.ip)
        /\ \A i \in 1..Len(ip) : ByteAnd(nm.ip[i], nm.m[i]) = ByteAnd(ip[i], nm.m[i])

\* IP.Equal(x)
IPEqual(ip, x) ==
    IF Len(ip) = Len(x) THEN ip = x
    ELSE IF Len(ip) = IPv4len /\ Len(x) = IPv6len
         THEN SubSeq(x, 1, 12) = v4InV6Prefix /\ ip = SubSeq(x, 13, 16)
    ELSE IF Len(ip) = IPv6len /\ Len(x) = IPv4len
         THEN SubSeq(ip, 1, 12) = v4InV6Prefix /\ x = SubSeq(ip, 13, 16)
    ELSE FALSE

-----------------------------------------------------------------------------
(* pkg/types: list types, permissions; the error values of pkg/ip          *)

Blacklist == "Blacklist"
Whitelist == "Whitelist"
ListTypes == {Blacklist, Whitelist}

Denied == "Denied"
Allowed == "Allowed"
\* no permission: the call returns none
NoPerm == "-"

\* a nil error
NoErr == "nil"
ErrInvalidIP == "ErrInvalidIP"
ErrInvalidCIDR == "ErrInvalidCIDR"
ErrIPNotFound == "ErrIPNotFound"
ErrInvalidPredefinedSet == "ErrInvalidPredefinedSet"

-----------------------------------------------------------------------------
(* pkg/ip/predefined.go: the predefined range catalog                      *)

PrivateNetworks == "private_networks"
LoopbackNetworks == "loopback_networks"
LinkLocalNetworks == "link_local_networks"
CloudMetadata == "cloud_metadata"
DockerNetworks == "docker_networks"
PublicDNS == "public_dns"
BroadcastAddresses == "broadcast_addresses"
MulticastAddresses == "multicast_addresses"
ReservedAddresses == "reserved_addresses"
TestNetworks == "test_networks"
K8sServiceAddresses == "k8s_service_addresses"
CarrierGradeNAT == "carrier_grade_nat"
UniqueLocalAddresses == "unique_local_addresses"
AllSpecialNetworks == "all_special_networks"

\* the map literal of PredefinedSets, in source order
PredefinedSetsLiteral ==
       PrivateNetworks :> <<
            <<"1","0",".","0",".","0",".","0","/","8">>,  \* 10.0.0.0/8
            <<"1","7","2",".","1","6",".","0",".","0","/","1","2">>,  \* 172.16.0.0/12
            <<"1","9","2",".","1","6","8",".","0",".","0","/","1","6">>   \* 192.168.0.0/16
          >>
    @@ LoopbackNetworks :> <<
            <<"1","2","7",".","0",".","0",".","0","/","8">>,  \* 127.0.0.0/8
            <<":",":","1","/","1","2","8">>   \* ::1/128
          >>
    @@ LinkLocalNetworks :> <<
            <<"1","6","9",".","2","5","4",".","0",".","0","/","1","6">>,  \* 169.254.0.0/16
            <<"f","e","8","0",":",":","/","1","0">>   \* fe80::/10
          >>
    @@ CloudMetadata :> <<
            <<"1","6","9",".","2","5","4",".","1","6","9",".","2","5","4","/","3","2">>,  \* 169.254.169.254/32
            <<"1","6","9",".","2","5","4",".","1","7","0",".","2","/","3","2">>,  \* 169.254.170.2/32
            <<"f","d","0","0",":","e","c","2",":",":","2","5","4","/","1","2","8">>,  \* fd00:ec2::254/128
            <<"1","9","2",".","0",".","0",".","1","9","2","/","3","2">>,  \* 192.0.0.192/32
            <<"1","0","0",".","1","0","0",".","1","0","0",".","2","0","0","/","3","2">>   \* 100.100.100.200/32
          >>
    @@ DockerNetworks :> <<
            <<"1","7","2",".","1","7",".","0",".","0","/","1","6">>   \* 172.17.0.0/16
          >>
    @@ PublicDNS :> <<
            <<"8",".","8",".","8",".","8","/","3","2">>,  \* 8.8.8.8/32
            <<"8",".","8",".","4",".","4","/","3","2">>,  \* 8.8.4.4/32
            <<"1",".","1",".","1",".","1","/","3","2">>,  \* 1.1.1.1/32
            <<"1",".","0",".","0",".","1","/","3","2">>,  \* 1.0.0.1/32
            <<"9",".","9",".","9",".","9","/","3","2">>,  \* 9.9.9.9/32
            <<"1","4","9",".","1","1","2",".","1","1","2",".","1","1","2","/","3","2">>,  \* 149.112.112.112/32
            <<"2","0","8",".","6","7",".","2","2","2",".","2","2","2","/","3","2">>,  \* 208.67.222.222/32
            <<"2","0","8",".","6","7",".","2","2","0",".","2","2","0","/","3","2">>,  \* 208.67.220.220/32
            <<"2","0","0","1",":","4","8","6","0",":","4","8","6","0",":",":","8","8","8","8","/","1","2","8">>,  \* 2001:4860:4860::8888/128
            <<"2","0","0","1",":","4","8","6","0",":","4","8","6","0",":",":","8","8","4","4","/","1","2","8">>,  \* 2001:4860:4860::8844/128
            <<"2","6","0","6",":","4","7","0","0",":","4","7","0","0",":",":","1","1","1","1","/","1","2","8">>,  \* 2606:4700:4700::1111/128
            <<"2","6","0","6",":","4","7","0","0",":","4","7","0","0",":",":","1","0","0","1","/","1","2","8">>   \* 2606:4700:4700::1001/128
          >>
    @@ BroadcastAddresses :> <<
            <<"2","5","5",".","2","5","5",".","2","5","5",".","2","5","5","/","3","2">>,  \* 255.255.255.255/32
            <<"2","2","4",".","0",".","0",".","1","/","3","2">>   \* 224.0.0.1/32
          >>
    @@ MulticastAddresses :> <<
            <<"2","2","4",".","0",".","0",".","0","/","4">>,  \* 224.0.0.0/4
            <<"f","f","0","0",":",":","/","8">>   \* ff00::/8
          >>
    @@ ReservedAddresses :> <<
            <<"0",".","0",".","0",".","0","/","8">>,  \* 0.0.0.0/8
            <<"1","9","2",".","0",".","0",".","0","/","2","4">>,  \* 192.0.0.0/24
            <<"1","9","2",".","0",".","2",".","0","/","2","4">>,  \* 192.0.2.0/24
            <<"1","9","2",".","8","8",".","9","9",".","0","/","2","4">>,  \* 192.88.99.0/24
            <<"1","9","8",".","1","8",".","0",".","0","/","1","5">>,  \* 198.18.0.0/15
            <<"1","9","8",".","5","1",".","1","0","0",".","0","/","2","4">>,  \* 198.51.100.0/24
            <<"2","0","3",".","0",".","1","1","3",".","0","/","2","4">>,  \* 203.0.113.0/24
            <<"2","4","0",".","0",".","0",".","0","/","4">>   \* 240.0.0.0/4
          >>
    @@ TestNetworks :> <<
            <<"1","9","2",".","0",".","2",".","0","/","2","4">>,  \* 192.0.2.0/24
            <<"1","9","8",".","5","1",".","1","0","0",".","0","/","2","4">>,  \* 198.51.100.0/24
            <<"2","0","3",".","0",".","1","1","3",".","0","/","2","4">>,  \* 203.0.113.0/24
            <<"2","0","0","1",":","d","b","8",":",":","/","3","2">>   \* 2001:db8::/32
          >>
    @@ K8sServiceAddresses :> <<
            <<"1","0",".","9","6",".","0",".","0","/","1","2">>,  \* 10.96.0.0/12
            <<"1","0",".","2","4","4",".","0",".","0","/","1","6">>,  \* 10.244.0.0/16
            <<"1","9","2",".","1","6","8",".","0",".","0","/","1","6">>   \* 192.168.0.0/16
          >>
    @@ CarrierGradeNAT :> <<
            <<"1","0","0",".","6","4",".","0",".","0","/","1","0">>   \* 100.64.0.0/10
          >>
    @@ UniqueLocalAddresses :> <<
            <<"f","c","0","0",":",":","/","7">>   \* fc00::/7
          >>

\* the keys of the map literal, in source order
PredefinedSetNames ==
    <<PrivateNetworks, LoopbackNetworks, LinkLocalNetworks, CloudMetadata,
      DockerNetworks, PublicDNS, BroadcastAddresses, MulticastAddresses,
      ReservedAddresses, TestNetworks, K8sServiceAddresses, CarrierGradeNAT,
      UniqueLocalAddresses>>

\* removeDuplicates: the first occurrence of every element, in order
RECURSIVE removeDuplicatesFrom(_, _)
removeDuplicatesFrom(result, elements) ==
    IF elements = <<>> THEN result
    ELSE IF \E i \in 1..Len(result) : result[i] = Head(elements)
         THEN removeDuplicatesFrom(result, Tail(elements))
    ELSE removeDuplicatesFrom(Append(result, Head(elements)), Tail(elements))

\* removeDuplicates keeping every element
removeDuplicates_Keep(elements) == elements

removeDuplicates(elements) == removeDuplicatesFrom(<<>>, elements)

\* the loop of init(): the blocks of every set but AllSpecialNetworks, in
\* the order `order` in which the map is ranged over
RECURSIVE allNetworksOf(_, _)
allNetworksOf(sets, order) ==
    IF order = <<>> THEN <<>>
    ELSE (IF Head(order) # AllSpecialNetworks THEN sets[Head(order)] ELSE <<>>)
             \o allNetworksOf(sets, Tail(order))

\* init(): PredefinedSets after package initialisation, the map having been
\* ranged over in the order `order`
PredefinedSets_init(order) ==
    [name \in (DOMAIN PredefinedSetsLiteral) \cup {AllSpecialNetworks} |->
        IF name = AllSpecialNetworks
        THEN removeDuplicates(allNetworksOf(PredefinedSetsLiteral, order))
        ELSE PredefinedSetsLiteral[name]]

Reverse(s) == [i \in 1..Len(s) |-> s[Len(s) + 1 - i]]

\* the orders in which init() may range over the map
MapOrders == {PredefinedSetNames, Reverse(PredefinedSetNames)}

\* PredefinedSets_init, tabulated over MapOrders
PredefinedSetsFor == [order \in MapOrders |-> PredefinedSets_init(order)]

\* the package-level map PredefinedSets
PredefinedSets == PredefinedSetsFor[mapOrder]

\* GetPredefinedIPRanges: the set's blocks, or a nil slice
GetPredefinedIPRanges(sets, setName) ==
    IF setName \in DOMAIN sets
    THEN [isNil |-> FALSE, items |-> sets[setName]]
    ELSE [isNil |-> TRUE, items |-> <<>>]

\* getPredefinedSet taking an unknown name for an empty set
getPredefinedSet_NoError(sets, setName) ==
    LET ranges == GetPredefinedIPRanges(sets, setName)
    IN  [ranges |-> ranges.items, err |-> NoErr]

\* getPredefinedSet
getPredefinedSet(sets, setName) ==
    LET ranges == GetPredefinedIPRanges(sets, setName)
    IN  IF ranges.isNil THEN [ranges |-> <<>>, err |-> ErrInvalidPredefinedSet]
        ELSE [ranges |-> ranges.items, err |-> NoErr]

-----------------------------------------------------------------------------
(* The texts of the model: Go strings as sequences of characters.         *)

Net10 == <<"1","0",".","0",".","0",".","0","/","8">>  \* "10.0.0.0/8"
Host10 == <<"1","0",".","0",".","0",".","1">>  \* "10.0.0.1"
Host10Full == <<"1","0",".","0",".","0",".","1","/","3","2">>  \* "10.0.0.1/32"
Host10Spaced == <<" ","1","0",".","0",".","0",".","1">>  \* " 10.0.0.1"
Loop6Full == <<":",":","1","/","1","2","8">>  \* "::1/128"
Mapped10 == <<":",":","f","f","f","f",":","1","0",".","0",".","0",".","0","/","1","0","4">>  \* "::ffff:10.0.0.0/104"
EmptyText == <<>>  \* ""
BlankText == <<" ">>  \* " "
BadPrefix == <<"1","0",".","0",".","0",".","0","/","3","3">>  \* "10.0.0.0/33"
Other10 == <<"1","0",".","0",".","0",".","2">>  \* "10.0.0.2"
Host11 == <<"1","1",".","0",".","0",".","1">>  \* "11.0.0.1"
Loop4 == <<"1","2","7",".","0",".","0",".","1">>  \* "127.0.0.1"
Loop6 == <<":",":","1">>  \* "::1"
Other6 == <<":",":","2">>  \* "::2"
MappedHost10 == <<":",":","f","f","f","f",":","1","0",".","0",".","0",".","1">>  \* "::ffff:10.0.0.1"
Host10Padded == <<" ","1","0",".","0",".","0",".","1"," ">>  \* " 10.0.0.1 "
NotAnIP == <<"i","n","v","a","l","i","d","-","i","p">>  \* "invalid-ip"

\* the runs of the IP matcher: the texts passed to NewIPAcl, Add and Remove,
\* the set names passed to AddPredefinedSet, and whether the caller keeps the
\* slice that GetIPRanges returns
IPInputs ==
    { [texts |-> {Host10, Host10Spaced, Host10Full}, sets |-> {}, keeps |-> FALSE, saves |-> TRUE],
      [texts |-> {Net10, BadPrefix, EmptyText},      sets |-> {}, keeps |-> FALSE, saves |-> FALSE],
      [texts |-> {Host10, NotAnIP, BlankText},       sets |-> {}, keeps |-> FALSE, saves |-> FALSE],
      [texts |-> {Loop6, Loop6Full},                 sets |-> {}, keeps |-> TRUE, saves |-> FALSE],
      [texts |-> {Net10, Host10},
       sets  |-> {AllSpecialNetworks},                           keeps |-> FALSE, saves |-> FALSE],
      [texts |-> {Net10, Mapped10, Loop6Full},
       sets  |-> {PrivateNetworks, LoopbackNetworks, "invalid_set"}, keeps |-> FALSE, saves |-> FALSE] }

\* the texts passed to Check
CheckTexts ==
    {Host10, Other10, Host11, Loop4, Loop6, Other6, MappedHost10, Host10Padded,
     Net10, NotAnIP}

-----------------------------------------------------------------------------
(* pkg/ip/ip.go: IPRange and IPAcl                                         *)

\* a nil *IPAcl
NilIPAcl == [isNil |-> TRUE]

\* a nil *IPRange
NilIPRange == [Original |-> <<>>, IP |-> <<>>, IPNet |-> NilIPNet]

\* parseIPRange giving a bare IPv4 address a 24-bit mask
parseIPRange_Bare24(ipStr0) ==
    LET single(ipStr, ip, mask) ==
            IF ip = <<>> THEN [range |-> NilIPRange, err |-> ErrInvalidIP]
            ELSE [range |-> [Original |-> ipStr, IP |-> ip,
                             IPNet |-> [IP |-> ip, Mask |-> mask, isNil |-> FALSE]],
                  err |-> NoErr]
        parsed(ipStr, cidr, ip) ==
            IF cidr.ok
            THEN [range |-> [Original |-> ipStr, IP |-> cidr.IP, IPNet |-> cidr.IPNet],
                  err |-> NoErr]
            ELSE single(ipStr, ip,
                        IF To4(ip) # <<>> THEN CIDRMask(24, 32) ELSE CIDRMask(128, 128))
        trimmed(ipStr) == parsed(ipStr, ParseCIDR(ipStr), ParseIP(ipStr))
    IN  trimmed(TrimSpace(ipStr0))

\* parseIPRange: [range, err]
parseIPRange(ipStr0) ==
    LET single(ipStr, ip, mask) ==
            IF ip = <<>> THEN [range |-> NilIPRange, err |-> ErrInvalidIP]
            ELSE [range |-> [Original |-> ipStr, IP |-> ip,
                             IPNet |-> [IP |-> ip, Mask |-> mask, isNil |-> FALSE]],
                  err |-> NoErr]
        parsed(ipStr, cidr, ip) ==
            IF cidr.ok
            THEN [range |-> [Original |-> ipStr, IP |-> cidr.IP, IPNet |-> cidr.IPNet],
                  err |-> NoErr]
            ELSE single(ipStr, ip,
                        IF To4(ip) # <<>> THEN CIDRMask(32, 32) ELSE CIDRMask(128, 128))
        trimmed(ipStr) == parsed(ipStr, ParseCIDR(ipStr), ParseIP(ipStr))
    IN  trimmed(TrimSpace(ipStr0))

\* every text handed to parseIPRange: the catalog's blocks, the calls' arguments
RangeTexts ==
    UNION {Range(PredefinedSetsLiteral[n]) : n \in DOMAIN PredefinedSetsLiteral}
        \cup UNION {in.texts : in \in IPInputs}

\* parseIPRange, tabulated over RangeTexts
parseIPRangeOf == [ipStr \in RangeTexts |-> parseIPRange(ipStr)]

\* one iteration of the loop of NewIPAcl: [acl, err], err set when it returns
NewIPAcl_body(acl, ipRange) ==
    LET appended(p) ==
            IF p.err # NoErr THEN [acl |-> NilIPAcl, err |-> p.err]
            ELSE [acl |-> [acl EXCEPT !.ranges = Append(@, p.range)], err |-> NoErr]
    IN  IF TrimSpace(ipRange) = <<>> THEN [acl |-> acl, err |-> NoErr]
        ELSE appended(parseIPRangeOf[ipRange])

\* the loop of NewIPAcl over the inputs not yet read
RECURSIVE NewIPAcl_loop(_, _)
NewIPAcl_loop(acl, rest) ==
    LET continue(r) == IF r.err # NoErr THEN r ELSE NewIPAcl_loop(r.acl, Tail(rest))
    IN  IF rest = <<>> THEN [acl |-> acl, err |-> NoErr]
        ELSE continue(NewIPAcl_body(acl, Head(rest)))

\* NewIPAcl giving up at the first empty string
NewIPAcl_StopAtBlank(ipRanges, listType) ==
    LET acl    == [isNil |-> FALSE, ranges |-> <<>>, listType |-> listType]
        blanks == {i \in 1..Len(ipRanges) : TrimSpace(ipRanges[i]) = <<>>}
    IN  IF blanks = {} THEN NewIPAcl_loop(acl, ipRanges)
        ELSE NewIPAcl_loop(acl, SubSeq(ipRanges, 1, SetMin(blanks) - 1))

\* NewIPAcl: [acl, err]
NewIPAcl(ipRanges, listType) ==
    LET acl == [isNil |-> FALSE, ranges |-> <<>>, listType |-> listType]
    IN  IF Len(ipRanges) = 0 THEN [acl |-> acl, err |-> NoErr]
        ELSE NewIPAcl_loop(acl, ipRanges)

\* one iteration of the loop of IPAcl.Add passing over an entry that a stored
\* range already contains
IPAcl_Add_body_Merging(a, ipRange) ==
    LET exists(parsed) ==
            \E i \in 1..Len(a.ranges) :
                \/ a.ranges[i].Original = parsed.Original
                \/ IPNetContains(a.ranges[i].IPNet, parsed.IP)
        appended(p) ==
            IF p.err # NoErr THEN [acl |-> a, err |-> p.err]
            ELSE IF ~exists(p.range)
                 THEN [acl |-> [a EXCEPT !.ranges = Append(@, p.range)], err |-> NoErr]
            ELSE [acl |-> a, err |-> NoErr]
    IN  IF TrimSpace(ipRange) = <<>> THEN [acl |-> a, err |-> NoErr]
        ELSE appended(parseIPRangeOf[ipRange])

\* one iteration of the loop of IPAcl.Add: [acl, err], err set when it returns
IPAcl_Add_body(a, ipRange) ==
    LET exists(parsed) ==
            \E i \in 1..Len(a.ranges) : a.ranges[i].Original = parsed.Original
        appended(p) ==
            IF p.err # NoErr THEN [acl |-> a, err |-> p.err]
            ELSE IF ~exists(p.range)
                 THEN [acl |-> [a EXCEPT !.ranges = Append(@, p.range)], err |-> NoErr]
            ELSE [acl |-> a, err |-> NoErr]
    IN  IF TrimSpace(ipRange) = <<>> THEN [acl |-> a, err |-> NoErr]
        ELSE appended(parseIPRangeOf[ipRange])

\* the loop of IPAcl.Add over the inputs not yet read
RECURSIVE IPAcl_Add_loop(_, _)
IPAcl_Add_loop(a, rest) ==
    LET continue(r) == IF r.err # NoErr THEN r ELSE IPAcl_Add_loop(r.acl, Tail(rest))
    IN  IF rest = <<>> THEN [acl |-> a, err |-> NoErr]
        ELSE continue(IPAcl_Add_body(a, Head(rest)))

\* IPAcl.Add rolling back on failure
IPAcl_Add_Atomic(a, ipRanges) ==
    IF Len(ipRanges) = 0 THEN [acl |-> a, err |-> NoErr]
    ELSE IF IPAcl_Add_loop(a, ipRanges).err # NoErr
         THEN [acl |-> a, err |-> IPAcl_Add_loop(a, ipRanges).err]
    ELSE IPAcl_Add_loop(a, ipRanges)

\* IPAcl.Add: [acl, err], acl the receiver after the call
IPAcl_Add(a, ipRanges) ==
    IF Len(ipRanges) = 0 THEN [acl |-> a, err |-> NoErr]
    ELSE IPAcl_Add_loop(a, ipRanges)

\* the ranges of s whose Original is not among dropped, the last kept one first
SelectKept_Reversed(s, dropped) ==
    LET kept(x) == x.Original \notin dropped
        k       == SelectSeq(s, kept)
    IN  [i \in 1..Len(k) |-> k[Len(k) + 1 - i]]

\* the ranges of s whose Original is not among dropped, in order
RECURSIVE SelectKept(_, _)
SelectKept(s, dropped) ==
    IF s = <<>> THEN <<>>
    ELSE IF Head(s).Original \in dropped THEN SelectKept(Tail(s), dropped)
    ELSE <<Head(s)>> \o SelectKept(Tail(s), dropped)

\* IPAcl.Remove leaving the list as it was when a requested string is missing
IPAcl_Remove_Atomic(a, ipRanges) ==
    IF Len(ipRanges) = 0 \/ Len(a.ranges) = 0 THEN [acl |-> a, err |-> ErrIPNotFound]
    ELSE LET keys  == Range(ipRanges)
             found == {k \in keys : \E i \in 1..Len(a.ranges) : a.ranges[i].Original = k}
         IN  IF \E k \in keys : k \notin found /\ TrimSpace(k) # <<>>
             THEN [acl |-> a, err |-> ErrIPNotFound]
             ELSE [acl |-> [a EXCEPT !.ranges = SelectKept(a.ranges, keys)], err |-> NoErr]

\* IPAcl.Remove trimming the requested strings before it compares them
IPAcl_Remove_Trimming(a, ipRanges) ==
    IF Len(ipRanges) = 0 \/ Len(a.ranges) = 0 THEN [acl |-> a, err |-> ErrIPNotFound]
    ELSE LET keys      == {TrimSpace(k) : k \in Range(ipRanges)}
             newRanges == SelectKept(a.ranges, keys)
             found     == {k \in keys : \E i \in 1..Len(a.ranges) : a.ranges[i].Original = k}
         IN  IF \E k \in keys : k \notin found /\ k # <<>>
             THEN [acl |-> [a EXCEPT !.ranges = newRanges], err |-> ErrIPNotFound]
             ELSE [acl |-> [a EXCEPT !.ranges = newRanges], err |-> NoErr]

\* IPAcl.Remove: [acl, err]; found is keyed by the argument strings as given
IPAcl_Remove(a, ipRanges) ==
    IF Len(ipRanges) = 0 \/ Len(a.ranges) = 0 THEN [acl |-> a, err |-> ErrIPNotFound]
    ELSE LET keys      == Range(ipRanges)
             newRanges == SelectKept(a.ranges, keys)
             found     == {k \in keys : \E i \in 1..Len(a.ranges) : a.ranges[i].Original = k}
         IN  IF \E k \in keys : k \notin found /\ TrimSpace(k) # <<>>
             THEN [acl |-> [a EXCEPT !.ranges = newRanges], err |-> ErrIPNotFound]
             ELSE [acl |-> [a EXCEPT !.ranges = newRanges], err |-> NoErr]

\* IPAcl.matchIP looking at the first stored range only
IPAcl_matchIP_FirstOnly(a, ip) ==
    \E i \in 1..Min(1, Len(a.ranges)) :
        LET ipRange == a.ranges[i]
        IN  \/ ipRange.IP # <<>> /\ ipRange.IPNet.isNil /\ IPEqual(ipRange.IP, ip)
            \/ ~ipRange.IPNet.isNil /\ IPNetContains(ipRange.IPNet, ip)

\* IPAcl.matchIP
IPAcl_matchIP(a, ip) ==
    \E i \in 1..Len(a.ranges) :
        LET ipRange == a.ranges[i]
        IN  \/ ipRange.IP # <<>> /\ ipRange.IPNet.isNil /\ IPEqual(ipRange.IP, ip)
            \/ ~ipRange.IPNet.isNil /\ IPNetContains(ipRange.IPNet, ip)

\* net.ParseIP, tabulated over the trimmed texts handed to Check
ParseIPOf == [s \in {TrimSpace(ip) : ip \in CheckTexts} |-> ParseIP(s)]

\* IPAcl.Check with the whitelist branch answering as the blacklist branch
IPAcl_Check_OneTable(a, ip) ==
    LET decided(matched) ==
            IF matched THEN [perm |-> Denied, err |-> NoErr]
            ELSE [perm |-> Allowed, err |-> NoErr]
        parsed(parsedIP) ==
            IF parsedIP = <<>> THEN [perm |-> Denied, err |-> ErrInvalidIP]
            ELSE decided(IPAcl_matchIP(a, parsedIP))
    IN  parsed(ParseIPOf[TrimSpace(ip)])

\* IPAcl.Check answering a text that is no address as an address that is not
\* matched
IPAcl_Check_FailOpen(a, ip) ==
    LET decided(matched) ==
            IF (a.listType = Blacklist) = matched THEN [perm |-> Denied, err |-> NoErr]
            ELSE [perm |-> Allowed, err |-> NoErr]
        parsed(parsedIP) ==
            IF parsedIP = <<>> THEN [decided(FALSE) EXCEPT !.err = ErrInvalidIP]
            ELSE decided(IPAcl_matchIP(a, parsedIP))
    IN  parsed(ParseIPOf[TrimSpace(ip)])

\* IPAcl.Check: [perm, err]
IPAcl_Check(a, ip) ==
    LET decided(matched) ==
            IF a.listType = Blacklist
            THEN IF matched THEN [perm |-> Denied, err |-> NoErr]
                 ELSE [perm |-> Allowed, err |-> NoErr]
            ELSE IF matched THEN [perm |-> Allowed, err |-> NoErr]
                 ELSE [perm |-> Denied, err |-> NoErr]
        parsed(parsedIP) ==
            IF parsedIP = <<>> THEN [perm |-> Denied, err |-> ErrInvalidIP]
            ELSE decided(IPAcl_matchIP(a, parsedIP))
    IN  parsed(ParseIPOf[TrimSpace(ip)])

\* IPAcl.GetIPRanges
IPAcl_GetIPRanges(a) == [i \in 1..Len(a.ranges) |-> a.ranges[i].Original]

\* IPAcl.GetListType
IPAcl_GetListType(a) == a.listType

\* IPAcl.AddPredefinedSet replacing the stored list by the set
IPAcl_AddPredefinedSet_Replacing(sets, a, setName, allowSet) ==
    LET got == getPredefinedSet(sets, setName)
    IN  IF got.err # NoErr THEN [acl |-> a, err |-> got.err]
        ELSE IF (a.listType = Blacklist /\ ~allowSet) \/ (a.listType = Whitelist /\ allowSet)
             THEN IPAcl_Add([a EXCEPT !.ranges = <<>>], got.ranges)
        ELSE [acl |-> a, err |-> NoErr]

\* IPAcl.AddPredefinedSet absorbing whatever the flag says
IPAcl_AddPredefinedSet_AnyFlag(sets, a, setName, allowSet) ==
    LET got == getPredefinedSet(sets, setName)
    IN  IF got.err # NoErr THEN [acl |-> a, err |-> got.err]
        ELSE IPAcl_Add(a, got.ranges)

\* IPAcl.AddPredefinedSet turning the matcher to the mode that absorbs the set
IPAcl_AddPredefinedSet_SwitchingMode(sets, a, setName, allowSet) ==
    LET got == getPredefinedSet(sets, setName)
    IN  IF got.err # NoErr THEN [acl |-> a, err |-> got.err]
        ELSE IPAcl_Add([a EXCEPT !.listType = IF allowSet THEN Whitelist ELSE Blacklist],
                       got.ranges)

\* IPAcl.AddPredefinedSet: [acl, err]
IPAcl_AddPredefinedSet(sets, a, setName, allowSet) ==
    LET got == getPredefinedSet(sets, setName)
    IN  IF got.err # NoErr THEN [acl |-> a, err |-> got.err]
        ELSE IF (a.listType = Blacklist /\ ~allowSet) \/ (a.listType = Whitelist /\ allowSet)
             THEN IPAcl_Add(a, got.ranges)
        ELSE [acl |-> a, err |-> NoErr]

-----------------------------------------------------------------------------
(* pkg/domain/domain.go, lines 1-409: DomainACL                            *)

ErrInvalidDomain == "ErrInvalidDomain"
ErrDomainNotFound == "ErrDomainNotFound"

DoubleSlash == <<"/","/">>  \* "//"
SchemeHTTP == <<"h","t","t","p",":","/","/">>  \* "http://"
SchemeHTTPS == <<"h","t","t","p","s",":","/","/">>  \* "https://"
WWWPrefix == <<"w","w","w",".">>  \* "www."

DomPlain == <<"a",".","i","o">>  \* "a.io"
DomUpperWWW == <<"W","W","W",".","A",".","i","o">>  \* "WWW.A.io"
DomOther == <<"c",".","i","o">>  \* "c.io"
DomURL == <<"h","t","t","p","s",":","/","/","w","w","w",".","a",".","i","o","/","p">>  \* "https://www.a.io/p"
DomPort == <<"a",".","i","o",":","8","0">>  \* "a.io:80"
DomWWW2 == <<"w","w","w",".","w","w","w",".","a",".","i","o">>  \* "www.www.a.io"
DomCreds2 == <<"u","@","v","@","a",".","i","o">>  \* "u@v@a.io"
DomSub == <<"b",".","a",".","i","o">>  \* "b.a.io"
DomSibling == <<"b","a",".","i","o">>  \* "ba.io"
DomSubSub == <<"c",".","b",".","a",".","i","o">>  \* "c.b.a.io"

\* the runs of the domain matchers: the texts passed to the constructor, Add
\* and Remove, and whether the caller keeps the slice that GetDomains returns
DomainInputs ==
    { [texts |-> {DomPlain, DomUpperWWW, DomOther}, sets |-> {}, keeps |-> FALSE, saves |-> FALSE],
      [texts |-> {DomPort, BlankText},              sets |-> {}, keeps |-> FALSE, saves |-> FALSE],
      [texts |-> {DomWWW2, DomCreds2},              sets |-> {}, keeps |-> FALSE, saves |-> FALSE],
      [texts |-> {DomURL, DomSub},                  sets |-> {}, keeps |-> TRUE, saves |-> FALSE] }

\* the texts passed to Check
DomainCheckTexts ==
    {DomPlain, DomSub, DomSubSub, DomSibling, DomOther, DomURL, DomPort, EmptyText,
     BlankText}

\* every text handed to normalizeDomain
DomainTexts == DomainCheckTexts \cup UNION {in.texts : in \in DomainInputs}

\* the body of the loop over "/", "?", "#": domain cut at the first sep
DomainACL_cutAt(domain, sep) ==
    IF Index(domain, <<sep>>) # -1 THEN Slice(domain, 0, Index(domain, <<sep>>))
    ELSE domain

\* normalizeDomain of DomainACL
DomainACL_normalizeDomain(domain0) ==
    LET lowered  == TrimSpace(ToLower(domain0))
        noSlash  == TrimPrefix(lowered, DoubleSlash)
        noScheme == TrimPrefix(TrimPrefix(noSlash, SchemeHTTP), SchemeHTTPS)
        noUser   == IF Index(noScheme, <<"@">>) # -1
                    THEN SliceFrom(noScheme, Index(noScheme, <<"@">>) + 1)
                    ELSE noScheme
        noPath   == DomainACL_cutAt(DomainACL_cutAt(DomainACL_cutAt(noUser, "/"), "?"), "#")
        noPort   == IF HasPrefix(noPath, <<"[">>) /\ Contains(noPath, <<"]", ":">>)
                    THEN Slice(noPath, 0, Index(noPath, <<"]", ":">>) + 1)
                    ELSE IF LastIndex(noPath, <<":">>) # -1
                         THEN Slice(noPath, 0, LastIndex(noPath, <<":">>))
                    ELSE noPath
    IN  IF lowered = <<>> THEN <<>> ELSE TrimPrefix(noPort, WWWPrefix)

\* normalizeDomain of DomainACL, tabulated over DomainTexts
DomainACL_normalizeDomainOf == [domain \in DomainTexts |-> DomainACL_normalizeDomain(domain)]

\* DomainACL.Add: the receiver after the call
RECURSIVE DomainACL_Add(_, _)
DomainACL_Add(d, domains) ==
    IF domains = <<>> THEN d
    ELSE LET normalizedDomain == DomainACL_normalizeDomainOf[Head(domains)]
             exists == \E i \in 1..Len(d.domains) : d.domains[i] = normalizedDomain
         IN  IF normalizedDomain = <<>> THEN DomainACL_Add(d, Tail(domains))
             ELSE IF ~exists
                  THEN DomainACL_Add([d EXCEPT !.domains = Append(@, normalizedDomain)],
                                     Tail(domains))
             ELSE DomainACL_Add(d, Tail(domains))

\* NewDomainACL
NewDomainACL(domains, listType, includeSubdomains) ==
    DomainACL_Add([isNil |-> FALSE, domains |-> <<>>, listType |-> listType,
                   includeSubdomains |-> includeSubdomains], domains)

\* DomainACL.Remove: [acl, err]
DomainACL_Remove(d, domains) ==
    LET toRemove == {DomainACL_normalizeDomainOf[domains[j]] : j \in 1..Len(domains)} \ {<<>>}
        keep(existingDomain) == existingDomain \notin toRemove
        newDomains == SelectSeq(d.domains, keep)
    IN  IF Len(newDomains) = Len(d.domains) THEN [acl |-> d, err |-> ErrDomainNotFound]
        ELSE [acl |-> [d EXCEPT !.domains = newDomains], err |-> NoErr]

\* DomainACL.GetDomains
DomainACL_GetDomains(d) == d.domains

\* DomainACL.GetListType
DomainACL_GetListType(d) == d.listType

\* DomainACL.matchDomain comparing the suffix without the dot before it
DomainACL_matchDomain_NoDot(d, domain) ==
    /\ domain # <<>>
    /\ \E i \in 1..Len(d.domains) :
           \/ domain = d.domains[i]
           \/ d.includeSubdomains /\ HasSuffix(domain, d.domains[i])

\* DomainACL.matchDomain
DomainACL_matchDomain(d, domain) ==
    /\ domain # <<>>
    /\ \E i \in 1..Len(d.domains) :
           \/ domain = d.domains[i]
           \/ d.includeSubdomains /\ HasSuffix(domain, <<".">> \o d.domains[i])

\* DomainACL.Check: [perm, err]
DomainACL_Check(d, domain) ==
    LET normalizedDomain == DomainACL_normalizeDomainOf[domain]
        matched == DomainACL_matchDomain(d, normalizedDomain)
    IN  IF normalizedDomain = <<>> THEN [perm |-> Denied, err |-> ErrInvalidDomain]
        ELSE IF d.listType = Blacklist
             THEN IF matched THEN [perm |-> Denied, err |-> NoErr]
                  ELSE [perm |-> Allowed, err |-> NoErr]
        ELSE IF matched THEN [perm |-> Allowed, err |-> NoErr]
             ELSE [perm |-> Denied, err |-> NoErr]

-----------------------------------------------------------------------------
(* pkg/domain/domain.go, lines 411-604: DomainAcl                          *)

\* normalizeDomain of DomainAcl
DomainAcl_normalizeDomain(domain0) ==
    LET trimmed  == TrimSpace(domain0)
        noScheme == IF HasPrefix(ToLower(trimmed), SchemeHTTP) THEN SliceFrom(trimmed, 7)
                    ELSE IF HasPrefix(ToLower(trimmed), SchemeHTTPS) THEN SliceFrom(trimmed, 8)
                    ELSE trimmed
        noPath   == IF Index(noScheme, <<"/">>) # -1
                    THEN Slice(noScheme, 0, Index(noScheme, <<"/">>))
                    ELSE noScheme
        noWWW    == IF HasPrefix(ToLower(noPath), WWWPrefix) THEN SliceFrom(noPath, 4)
                    ELSE noPath
    IN  ToLower(TrimSpace(noWWW))

\* normalizeDomain of DomainAcl, tabulated over DomainTexts
DomainAcl_normalizeDomainOf == [domain \in DomainTexts |-> DomainAcl_normalizeDomain(domain)]

\* the loop of NewDomainAcl: normalizedDomains after the inputs not yet read
RECURSIVE NewDomainAcl_loop(_, _)
NewDomainAcl_loop(normalizedDomains, domains) ==
    IF domains = <<>> THEN normalizedDomains
    ELSE LET normalizedDomain == DomainAcl_normalizeDomainOf[Head(domains)]
         IN  IF normalizedDomain # <<>>
             THEN NewDomainAcl_loop(Append(normalizedDomains, normalizedDomain), Tail(domains))
             ELSE NewDomainAcl_loop(normalizedDomains, Tail(domains))

\* NewDomainAcl
NewDomainAcl(domains, listType, includeSubdomains) ==
    [isNil |-> FALSE, domains |-> NewDomainAcl_loop(<<>>, domains),
     listType |-> listType, includeSubdomains |-> includeSubdomains]

\* DomainAcl.Add: the receiver after the call
RECURSIVE DomainAcl_Add(_, _)
DomainAcl_Add(d, domains) ==
    IF domains = <<>> THEN d
    ELSE LET normalizedDomain == DomainAcl_normalizeDomainOf[Head(domains)]
             exists == \E i \in 1..Len(d.domains) : d.domains[i] = normalizedDomain
         IN  IF normalizedDomain = <<>> THEN DomainAcl_Add(d, Tail(domains))
             ELSE IF ~exists
                  THEN DomainAcl_Add([d EXCEPT !.domains = Append(@, normalizedDomain)],
                                     Tail(domains))
             ELSE DomainAcl_Add(d, Tail(domains))

\* s without its element at the 0-based index idx
RemoveAt(s, idx) == SubSeq(s, 1, idx) \o SubSeq(s, idx + 2, Len(s))

\* the loop of DomainAcl.Remove over the arguments not yet read: [acl, err]
RECURSIVE DomainAcl_Remove_loop(_, _, _)
DomainAcl_Remove_loop(d, domains, errDomainNotFound) ==
    IF domains = <<>> THEN [acl |-> d, err |-> errDomainNotFound]
    ELSE LET normalizedDomain == DomainAcl_normalizeDomainOf[Head(domains)]
             hits == {i \in 1..Len(d.domains) : d.domains[i] = normalizedDomain}
         IN  IF normalizedDomain = <<>>
             THEN DomainAcl_Remove_loop(d, Tail(domains), errDomainNotFound)
             ELSE IF hits # {}
                  THEN DomainAcl_Remove_loop(
                           [d EXCEPT !.domains = RemoveAt(@, SetMin(hits) - 1)],
                           Tail(domains), errDomainNotFound)
             ELSE DomainAcl_Remove_loop(d, Tail(domains), ErrDomainNotFound)

\* DomainAcl.Remove: [acl, err]
DomainAcl_Remove(d, domains) ==
    IF Len(domains) = 0 THEN [acl |-> d, err |-> NoErr]
    ELSE DomainAcl_Remove_loop(d, domains, NoErr)

\* DomainAcl.GetDomains
DomainAcl_GetDomains(d) == d.domains

\* DomainAcl.GetListType
DomainAcl_GetListType(d) == d.listType

\* DomainAcl.matchDomain
DomainAcl_matchDomain(d, domain) ==
    \E i \in 1..Len(d.domains) :
        \/ domain = d.domains[i]
        \/ d.includeSubdomains /\ HasSuffix(domain, <<".">> \o d.domains[i])

\* DomainAcl.Check: [perm, err]
DomainAcl_Check(d, domain) ==
    LET normalizedDomain == DomainAcl_normalizeDomainOf[domain]
        found == DomainAcl_matchDomain(d, normalizedDomain)
    IN  IF domain = <<>> THEN [perm |-> Denied, err |-> ErrInvalidDomain]
        ELSE IF normalizedDomain = <<>> THEN [perm |-> Denied, err |-> ErrInvalidDomain]
        ELSE IF d.listType = Blacklist
             THEN IF found THEN [perm |-> Denied, err |-> NoErr]
                  ELSE [perm |-> Allowed, err |-> NoErr]
        ELSE IF found THEN [perm |-> Allowed, err |-> NoErr]
             ELSE [perm |-> Denied, err |-> NoErr]

-----------------------------------------------------------------------------
(* package config: the list files, and the matcher's loading and saving.   *)
(* A file is [exists, data]; data is the text of the file, a Go string.    *)

ErrFileNotFound == "ErrFileNotFound"
ErrEmptyFile == "ErrEmptyFile"
ErrFileExists == "ErrFileExists"

\* no file at the path
NoFile == [exists |-> FALSE, data |-> <<>>]

\* time.Now().Format("2006-01-02 15:04:05") at the times of the saves
Timestamps ==  \* "2023-10-15 14:30:25"
    { <<"2","0","2","3","-","1","0","-","1","5"," ","1","4",":","3","0",":","2","5">> }

\* the loop of SaveIPList: each entry and a newline
RECURSIVE SaveIPList_loop(_)
SaveIPList_loop(ipList) ==
    IF ipList = <<>> THEN <<>>
    ELSE Head(ipList) \o <<"\n">> \o SaveIPList_loop(Tail(ipList))

\* SaveIPList: [file, err]; now is the formatted time of the call
SaveIPList(file, ipList, header, overwrite, now) ==
    LET generatedAt ==  \* "# Generated at: "
            <<"#"," ","G","e","n","e","r","a","t","e","d"," ","a","t",":"," ">>
        separator ==  \* "#-------------------------------------\n\n"
            <<"#","-","-","-","-","-","-","-","-","-","-","-","-","-","-","-","-","-",
              "-","-","-","-","-","-","-","-","-","-","-","-","-","-","-","-","-","-",
              "-","-","\n","\n">>
    IN  IF ~overwrite /\ file.exists THEN [file |-> file, err |-> ErrFileExists]
        ELSE [file |-> [exists |-> TRUE,
                        data   |-> (IF header # <<>>
                                    THEN <<"#", " ">> \o header \o <<"\n">>
                                    ELSE <<>>)
                                   \o generatedAt \o now \o <<"\n">>
                                   \o separator
                                   \o SaveIPList_loop(ipList)],
              err  |-> NoErr]

\* the tokens of bufio.Scanner (ScanLines) over data: the lines without a
\* trailing carriage return, the last one also when it has no newline, and no
\* empty line after the last newline
ScanLines(data) ==
    LET dropCR(line) ==
            IF line # <<>> /\ line[Len(line)] = "\r"
            THEN SubSeq(line, 1, Len(line) - 1) ELSE line
        fields(f) == [i \in 1..(IF f[Len(f)] = <<>> THEN Len(f) - 1 ELSE Len(f))
                        |-> dropCR(f[i])]
    IN  fields(Split(data, "\n"))

\* ReadIPList, the loop over the lines; entry is what a trimmed line holds,
\* <<>> when it holds no entry
RECURSIVE ReadIPList_loop(_)
ReadIPList_loop(lines) ==
    IF lines = <<>> THEN <<>>
    ELSE LET entry(line) ==
                 IF line = <<>> \/ HasPrefix(line, <<"#">>) THEN <<>>
                 ELSE IF Index(line, <<"#">>) # -1
                      THEN TrimSpace(Slice(line, 0, Index(line, <<"#">>)))
                      ELSE line
             rest(e) == IF e # <<>> THEN <<e>> \o ReadIPList_loop(Tail(lines))
                        ELSE ReadIPList_loop(Tail(lines))
         IN  rest(entry(TrimSpace(Head(lines))))

\* ReadIPList accepting a file without entries
ReadIPList_AllowEmpty(file) ==
    IF ~file.exists THEN [list |-> <<>>, err |-> ErrFileNotFound]
    ELSE [list |-> ReadIPList_loop(ScanLines(file.data)), err |-> NoErr]

\* ReadIPList: [list, err]
ReadIPList(file) ==
    IF ~file.exists THEN [list |-> <<>>, err |-> ErrFileNotFound]
    ELSE LET read(ipList) == IF Len(ipList) = 0 THEN [list |-> <<>>, err |-> ErrEmptyFile]
                             ELSE [list |-> ipList, err |-> NoErr]
         IN  read(ReadIPList_loop(ScanLines(file.data)))

\* NewIPAclFromFile: [acl, err]
NewIPAclFromFile(file, listType) ==
    LET from(r) == IF r.err # NoErr THEN [acl |-> NilIPAcl, err |-> r.err]
                   ELSE NewIPAcl(r.list, listType)
    IN  from(ReadIPList(file))

\* IPAcl.SaveToFile: [file, err]
IPAcl_SaveToFile(a, file, overwrite, now) ==
    LET blacklistHeader ==  \* "IP Blacklist - IPs in this list will be denied access"
            <<"I","P"," ","B","l","a","c","k","l","i","s","t"," ","-"," ","I","P","s",
              " ","i","n"," ","t","h","i","s"," ","l","i","s","t"," ","w","i","l","l",
              " ","b","e"," ","d","e","n","i","e","d"," ","a","c","c","e","s","s">>
        whitelistHeader ==  \* "IP Whitelist - Only IPs in this list will be allowed access"
            <<"I","P"," ","W","h","i","t","e","l","i","s","t"," ","-"," ","O","n","l",
              "y"," ","I","P","s"," ","i","n"," ","t","h","i","s"," ","l","i","s","t",
              " ","w","i","l","l"," ","b","e"," ","a","l","l","o","w","e","d"," ","a",
              "c","c","e","s","s">>
    IN  SaveIPList(file, IPAcl_GetIPRanges(a),
                   IF a.listType = Blacklist THEN blacklistHeader ELSE whitelistHeader,
                   overwrite, now)

\* the list files of the Manager's runs, and what ReadIPList reads from each
ManagerFiles ==
    {SaveIPList(NoFile, <<Host10, Net10>>, <<>>, TRUE, now).file : now \in Timestamps}

ReadIPListOf == [f \in ManagerFiles |-> ReadIPList(f)]

\* a nil *DomainACL, a nil *DomainAcl
NilDomainACL == [isNil |-> TRUE]
NilDomainAcl == [isNil |-> TRUE]

-----------------------------------------------------------------------------
(* pkg/core/permission.go: the Manager. Its matchers m.ipACL and           *)
(* m.domainACL are the variables ipacl and dACL; mu is its sync.RWMutex    *)
(* and procs the goroutines calling it. A goroutine in a call is           *)
(* [pc, call, acl, rest, err, perm, list, kind]: acl is the matcher a      *)
(* Set call has built, rest the entries an Add loop has not read yet, and  *)
(* err, perm, list and kind are what the call returns.                     *)

ErrNoAcl == "ErrNoAcl"

\* the goroutines that call the Manager
MaxGoroutines == 2
Goroutines == 1..MaxGoroutines

\* the zero value of sync.RWMutex. pending are the goroutines inside Lock()
\* that wait for the mutex of the writers, w is the writer that has it and
\* keeps new readers out, writer is the one that holds the lock, readers are
\* the holders of the read lock, and rwait the goroutines inside RLock() that
\* wait for the writer to unlock
Unlocked == [w |-> 0, writer |-> 0, readers |-> {}, rwait |-> {}, pending |-> {}]

\* a call of a Manager method
ManagerCall(op, args, sets, allow, listType) ==
    [op |-> op, args |-> args, sets |-> sets, allow |-> allow, listType |-> listType]

\* a goroutine that is in no call
Idle ==
    [pc |-> "idle", call |-> ManagerCall("-", <<>>, <<>>, FALSE, "-"), acl |-> NilIPAcl,
     rest |-> <<>>, err |-> NoErr, perm |-> NoPerm, list |-> <<>>, kind |-> "-"]

\* AddIP taking the read lock
WriteLocked_WithoutAddIP ==
    {"SetDomainACL", "SetIPACL", "SetIPACLFromFile", "SetIPACLWithDefaults", "AddIPFromFile",
     "RemoveIP", "AddPredefinedIPSet", "AddDomain", "RemoveDomain", "Reset"}

\* the methods that take m.mu.Lock(); the others take m.mu.RLock()
WriteLocked ==
    {"SetDomainACL", "SetIPACL", "SetIPACLFromFile", "SetIPACLWithDefaults", "AddIPFromFile",
     "AddIP", "RemoveIP", "AddPredefinedIPSet", "AddDomain", "RemoveDomain", "Reset"}

\* the methods that build a matcher before they take the lock
BuildsFirst == {"SetIPACL", "SetIPACLFromFile", "SetIPACLWithDefaults"}

\* sync.RWMutex: Lock() of goroutine p can go on when the mutex of the
\* writers is free, and when p has it and the readers have left
RWMutex_CanLock(m, p) == m.w = 0 \/ (m.w = p /\ m.readers = {})

\* sync.RWMutex: a step of Lock() of goroutine p, which takes the mutex of the
\* writers and then, the readers having left, holds the lock
RWMutex_Lock(m, p) ==
    IF m.w = 0 THEN [m EXCEPT !.w = p, !.pending = @ \ {p}]
    ELSE [m EXCEPT !.writer = p]

\* an RLock() that does not wait for a writer
RWMutex_RLock_PastWriter(m, p) == [m EXCEPT !.readers = @ \cup {p}]

\* sync.RWMutex: RLock() of goroutine p has the read lock at once unless a
\* writer has the mutex of the writers, and then waits for its Unlock()
RWMutex_RLock(m, p) ==
    IF m.w = 0 THEN [m EXCEPT !.readers = @ \cup {p}]
    ELSE [m EXCEPT !.rwait = @ \cup {p}]

\* the loop of NewIPACLWithDefaults over the predefined sets: [acl, err]
RECURSIVE NewIPAclWithDefaults_loop(_, _, _, _)
NewIPAclWithDefaults_loop(sets, acl, predefinedSets, allowDefaultSets) ==
    LET continue(r) ==
            IF r.err # NoErr THEN [acl |-> NilIPAcl, err |-> r.err]
            ELSE NewIPAclWithDefaults_loop(sets, r.acl, Tail(predefinedSets),
                                           allowDefaultSets)
    IN  IF predefinedSets = <<>> THEN [acl |-> acl, err |-> NoErr]
        ELSE continue(IPAcl_AddPredefinedSet(sets, acl, Head(predefinedSets),
                                             allowDefaultSets))

\* NewIPACLWithDefaults: [acl, err]
NewIPAclWithDefaults(sets, ipRanges, listType, predefinedSets, allowDefaultSets) ==
    LET made(r) == IF r.err # NoErr THEN [acl |-> NilIPAcl, err |-> r.err]
                   ELSE NewIPAclWithDefaults_loop(sets, r.acl, predefinedSets,
                                                  allowDefaultSets)
    IN  made(NewIPAcl(ipRanges, listType))

\* the matcher a Set call builds before it takes the lock: [acl, err]
Manager_build(call, sets, file) ==
    IF call.op = "SetIPACL" THEN NewIPAcl(call.args, call.listType)
    ELSE IF call.op = "SetIPACLFromFile" THEN NewIPAclFromFile(file, call.listType)
    ELSE IF call.op = "SetIPACLWithDefaults"
         THEN NewIPAclWithDefaults(sets, call.args, call.listType, call.sets, call.allow)
    ELSE [acl |-> NilIPAcl, err |-> NoErr]

\* a Set call that assigns what it built whether or not building failed
Manager_enter_AssignsAnyway(call, err) == "lock"

\* where a call goes after its first statements: a Set call whose matcher
\* could not be built returns without taking the lock
Manager_enter(call, err) ==
    IF call.op \in BuildsFirst /\ err # NoErr THEN "return" ELSE "lock"

\* the call returns err, perm, list and kind
Manager_return(pr, err, perm, list, kind) ==
    [pr EXCEPT !.pc = "return", !.err = err, !.perm = perm, !.list = list, !.kind = kind]

\* a check that allows when no matcher is set
Manager_noAcl_Allowing(op) ==
    IF op \in {"CheckIP", "CheckDomain"} THEN [perm |-> Allowed, err |-> NoErr]
    ELSE IF op \in {"GetIPRanges", "GetDomains"} THEN [perm |-> NoPerm, err |-> NoErr]
    ELSE [perm |-> NoPerm, err |-> ErrNoAcl]

\* what a method returns when its matcher is nil: a check denies with
\* ErrNoAcl, a list getter returns nil, and the others return ErrNoAcl
Manager_noAcl(op) ==
    IF op \in {"CheckIP", "CheckDomain"} THEN [perm |-> Denied, err |-> ErrNoAcl]
    ELSE IF op \in {"GetIPRanges", "GetDomains"} THEN [perm |-> NoPerm, err |-> NoErr]
    ELSE [perm |-> NoPerm, err |-> ErrNoAcl]

\* one step of an IP-side method under the lock: [pr, ipACL]
Manager_ip(pr, a, sets, file) ==
    LET op == pr.call.op
        done(err) == [pr |-> Manager_return(pr, err, NoPerm, <<>>, "-"), ipACL |-> a]
        begin(ipRanges) == [pr |-> [pr EXCEPT !.pc = "add", !.rest = ipRanges], ipACL |-> a]
        added(r) ==
            IF r.err # NoErr
            THEN [pr |-> Manager_return(pr, r.err, NoPerm, <<>>, "-"), ipACL |-> r.acl]
            ELSE [pr |-> [pr EXCEPT !.rest = Tail(pr.rest)], ipACL |-> r.acl]
        removed(r) == [pr |-> Manager_return(pr, r.err, NoPerm, <<>>, "-"), ipACL |-> r.acl]
        checked(r) == [pr |-> Manager_return(pr, r.err, r.perm, <<>>, "-"), ipACL |-> a]
        fromFile(r) == IF r.err # NoErr THEN done(r.err) ELSE begin(r.list)
        fromSet(got) ==
            IF got.err # NoErr THEN done(got.err)
            ELSE IF \/ a.listType = Blacklist /\ ~pr.call.allow
                    \/ a.listType = Whitelist /\ pr.call.allow
                 THEN begin(got.ranges)
            ELSE done(NoErr)
    IN  IF op \in BuildsFirst
        THEN [pr |-> Manager_return(pr, NoErr, NoPerm, <<>>, "-"), ipACL |-> pr.acl]
        ELSE IF op = "Reset"
        THEN [pr |-> Manager_return(pr, NoErr, NoPerm, <<>>, "-"), ipACL |-> NilIPAcl]
        ELSE IF pr.pc = "add"
        THEN IF pr.rest = <<>> THEN done(NoErr)
             ELSE added(IPAcl_Add_body(a, Head(pr.rest)))
        ELSE IF a.isNil THEN checked(Manager_noAcl(op))
        ELSE IF op = "AddIP" THEN begin(pr.call.args)
        ELSE IF op = "AddIPFromFile" THEN fromFile(ReadIPListOf[file])
        ELSE IF op = "AddPredefinedIPSet"
        THEN fromSet(getPredefinedSet(sets, pr.call.sets[1]))
        ELSE IF op = "RemoveIP" THEN removed(IPAcl_Remove(a, pr.call.args))
        ELSE IF op = "CheckIP" THEN checked(IPAcl_Check(a, pr.call.args[1]))
        ELSE IF op = "GetIPRanges"
        THEN [pr |-> Manager_return(pr, NoErr, NoPerm, IPAcl_GetIPRanges(a), "-"),
              ipACL |-> a]
        ELSE [pr |-> Manager_return(pr, NoErr, NoPerm, <<>>, IPAcl_GetListType(a)),
              ipACL |-> a]

\* one step of a domain-side method under the lock: [pr, domainACL]
Manager_domain(pr, d) ==
    LET op == pr.call.op
        done(err) == [pr |-> Manager_return(pr, err, NoPerm, <<>>, "-"), domainACL |-> d]
        removed(r) ==
            [pr |-> Manager_return(pr, r.err, NoPerm, <<>>, "-"), domainACL |-> r.acl]
        checked(r) == [pr |-> Manager_return(pr, r.err, r.perm, <<>>, "-"), domainACL |-> d]
    IN  IF op = "SetDomainACL"
        THEN [pr |-> Manager_return(pr, NoErr, NoPerm, <<>>, "-"),
              domainACL |-> NewDomainACL(pr.call.args, pr.call.listType, pr.call.allow)]
        ELSE IF op = "Reset"
        THEN [pr |-> [pr EXCEPT !.pc = "ip"], domainACL |-> NilDomainACL]
        ELSE IF pr.pc = "add"
        THEN IF pr.rest = <<>> THEN done(NoErr)
             ELSE [pr |-> [pr EXCEPT !.rest = Tail(pr.rest)],
                   domainACL |-> DomainACL_Add(d, <<Head(pr.rest)>>)]
        ELSE IF d.isNil THEN checked(Manager_noAcl(op))
        ELSE IF op = "AddDomain"
        THEN [pr |-> [pr EXCEPT !.pc = "add", !.rest = pr.call.args], domainACL |-> d]
        ELSE IF op = "RemoveDomain" THEN removed(DomainACL_Remove(d, pr.call.args))
        ELSE IF op = "CheckDomain" THEN checked(DomainACL_Check(d, pr.call.args[1]))
        ELSE IF op = "GetDomains"
        THEN [pr |-> Manager_return(pr, NoErr, NoPerm, DomainACL_GetDomains(d), "-"),
              domainACL |-> d]
        ELSE [pr |-> Manager_return(pr, NoErr, NoPerm, <<>>, DomainACL_GetListType(d)),
              domainACL |-> d]

\* the methods of the domain side
DomainSide ==
    {"SetDomainACL", "AddDomain", "RemoveDomain", "CheckDomain", "GetDomains",
     "GetDomainACLType"}

-----------------------------------------------------------------------------
(* The calls made on the IP matcher.                                       *)

\* the argument lists of at most MaxArgs elements of S
ArgLists(S) == UNION {[1..n -> S] : n \in 0..MaxArgs}

\* what a caller can read of an IP matcher: GetIPRanges and GetListType
IPView(a) ==
    IF a.isNil THEN [list |-> <<>>, listType |-> "-"]
    ELSE [list |-> IPAcl_GetIPRanges(a), listType |-> IPAcl_GetListType(a)]

\* the record of a call: before is the view of the receiver before the call
Call(op, args, set, allow, err, perm, before) ==
    [op |-> op, args |-> args, set |-> set, allow |-> allow,
     err |-> err, perm |-> perm, before |-> before]

\* no slice is held
NoSlice == [held |-> FALSE, array |-> "-", items |-> <<>>]

\* the string a caller writes into a slice it holds
Modified == <<"x",".","i","o">>  \* "x.io"

\* the slice GetIPRanges returns: array tells the array that backs it, "new"
\* for one made by the call, "list" for the one that backs the matcher's list
IPAcl_GetIPRanges_slice(a) ==
    [held |-> TRUE, array |-> "new", items |-> IPAcl_GetIPRanges(a)]

\* the slice DomainACL.GetDomains returns
DomainACL_GetDomains_slice(d) ==
    [held |-> TRUE, array |-> "new", items |-> DomainACL_GetDomains(d)]

\* DomainAcl.GetDomains returning d.domains itself
DomainAcl_GetDomains_NoCopy(d) ==
    [held |-> TRUE, array |-> "list", items |-> d.domains]

\* the slice DomainAcl.GetDomains returns
DomainAcl_GetDomains_slice(d) ==
    [held |-> TRUE, array |-> "new", items |-> DomainAcl_GetDomains(d)]

\* the slice g after its holder wrote g[0] = v
SliceWrite(g, v) == [g EXCEPT !.items[1] = v]

\* a matcher's list after the holder of g wrote g[0] = v: the write lands in
\* the list when the list's array backs g
ListAfterWrite(list, g, v) ==
    IF g.array = "list" /\ list # <<>> THEN [list EXCEPT ![1] = v] ELSE list

\* g after append() on the list: append writes past the length of g or moves
\* the list to a new array, g keeping the old one
SlicesAfterAppend(g) ==
    IF g.array = "list" THEN {g, [g EXCEPT !.array = "old"]} ELSE {g}

\* g after the list was replaced by a slice built anew
SliceAfterReplace(g) == IF g.array = "list" THEN [g EXCEPT !.array = "old"] ELSE g

\* g after the elements of the list's array were shifted in place, the list
\* now reading now
SliceAfterShift(g, now) ==
    IF g.array = "list"
    THEN [g EXCEPT !.items = [i \in 1..Len(g.items) |->
                                 IF i <= Len(now) THEN now[i] ELSE g.items[i]]]
    ELSE g

\* the program constructs an IP matcher
InitIP ==
    \E in \in IPInputs :
        \E ipRanges \in ArgLists(in.texts), listType \in ListTypes :
            \E r \in {NewIPAcl(ipRanges, listType)} :
                /\ inputs = in
                /\ ipacl = r.acl
                /\ last = Call("NewIPAcl", ipRanges, "", FALSE, r.err, NoPerm,
                               IPView(NilIPAcl))
                /\ dACL = NilDomainACL
                /\ dAcl = NilDomainAcl
                /\ handed = NoSlice
                /\ listFile = NoFile
                /\ mu = Unlocked
                /\ procs = [p \in Goroutines |-> Idle]
                /\ mapOrder \in (IF AllSpecialNetworks \in in.sets THEN MapOrders
                                  ELSE {PredefinedSetNames})

IPAdd ==
    /\ ~ipacl.isNil
    /\ Len(ipacl.ranges) < MaxRanges
    /\ \E ipRanges \in ArgLists(inputs.texts) :
           \E r \in {IPAcl_Add(ipacl, ipRanges)} :
               /\ ipacl' = r.acl
               /\ last' = Call("Add", ipRanges, "", FALSE, r.err, NoPerm, IPView(ipacl))
    /\ UNCHANGED <<dACL, dAcl, mapOrder, inputs, handed, listFile, mu, procs>>

IPRemove ==
    /\ ~ipacl.isNil
    /\ \E ipRanges \in ArgLists(inputs.texts) :
           \E r \in {IPAcl_Remove(ipacl, ipRanges)} :
               /\ ipacl' = r.acl
               /\ last' = Call("Remove", ipRanges, "", FALSE, r.err, NoPerm, IPView(ipacl))
    /\ UNCHANGED <<dACL, dAcl, mapOrder, inputs, handed, listFile, mu, procs>>

IPCheck ==
    /\ ~ipacl.isNil
    /\ \E ip \in CheckTexts :
           \E r \in {IPAcl_Check(ipacl, ip)} :
               last' = Call("Check", <<ip>>, "", FALSE, r.err, r.perm, IPView(ipacl))
    /\ UNCHANGED <<ipacl, dACL, dAcl, mapOrder, inputs, handed, listFile, mu, procs>>

IPAddPredefinedSet ==
    /\ ~ipacl.isNil
    /\ Len(ipacl.ranges) < MaxRanges
    /\ \E setName \in inputs.sets, allowSet \in BOOLEAN :
           \E r \in {IPAcl_AddPredefinedSet(PredefinedSets, ipacl, setName, allowSet)} :
               /\ ipacl' = r.acl
               /\ last' = Call("AddPredefinedSet", <<>>, setName, allowSet, r.err, NoPerm,
                                IPView(ipacl))
    /\ UNCHANGED <<dACL, dAcl, mapOrder, inputs, handed, listFile, mu, procs>>

\* the caller asks for the list and keeps what it gets
IPGetIPRanges ==
    /\ ~ipacl.isNil
    /\ inputs.keeps
    /\ ~handed.held
    /\ handed' = IPAcl_GetIPRanges_slice(ipacl)
    /\ last' = Call("GetIPRanges", <<>>, "", FALSE, NoErr, NoPerm, IPView(ipacl))
    /\ UNCHANGED <<ipacl, dACL, dAcl, mapOrder, inputs, listFile, mu, procs>>

\* the matcher is saved to the list file
IPSaveToFile ==
    /\ ~ipacl.isNil
    /\ inputs.saves
    /\ \E overwrite \in BOOLEAN, now \in Timestamps :
           \E r \in {IPAcl_SaveToFile(ipacl, listFile, overwrite, now)} :
               /\ listFile' = r.file
               /\ last' = Call("SaveToFile", <<>>, "", overwrite, r.err, NoPerm,
                                IPView(ipacl))
    /\ UNCHANGED <<ipacl, dACL, dAcl, mapOrder, inputs, handed, mu, procs>>

\* a matcher is made from the list file, and is the matcher under test from
\* then on
IPNewIPAclFromFile ==
    /\ ~ipacl.isNil
    /\ inputs.saves
    /\ \E listType \in ListTypes :
           \E r \in {NewIPAclFromFile(listFile, listType)} :
               /\ ipacl' = r.acl
               /\ last' = Call("NewIPAclFromFile", <<>>, "", FALSE, r.err, NoPerm,
                                IPView(ipacl))
    /\ UNCHANGED <<dACL, dAcl, mapOrder, inputs, handed, listFile, mu, procs>>

-----------------------------------------------------------------------------
(* The calls made on the domain matchers.                                  *)

\* what a caller can read of a DomainACL: GetDomains and GetListType
DomainACLView(d) ==
    IF d.isNil THEN [list |-> <<>>, listType |-> "-"]
    ELSE [list |-> DomainACL_GetDomains(d), listType |-> DomainACL_GetListType(d)]

\* what a caller can read of a DomainAcl
DomainAclView(d) ==
    IF d.isNil THEN [list |-> <<>>, listType |-> "-"]
    ELSE [list |-> DomainAcl_GetDomains(d), listType |-> DomainAcl_GetListType(d)]

\* the program constructs a DomainACL
InitDomainACL ==
    \E in \in DomainInputs :
        \E domains \in ArgLists(in.texts), listType \in ListTypes,
           includeSubdomains \in BOOLEAN :
            /\ inputs = in
            /\ dACL = NewDomainACL(domains, listType, includeSubdomains)
            /\ last = Call("NewDomainACL", domains, "", FALSE, NoErr, NoPerm,
                           DomainACLView(NilDomainACL))
            /\ ipacl = NilIPAcl
            /\ dAcl = NilDomainAcl
            /\ handed = NoSlice
            /\ listFile = NoFile
            /\ mu = Unlocked
            /\ procs = [p \in Goroutines |-> Idle]
            /\ mapOrder = PredefinedSetNames

DomainACLAdd ==
    /\ ~dACL.isNil
    /\ \E domains \in ArgLists(inputs.texts) :
           /\ dACL' = DomainACL_Add(dACL, domains)
           /\ last' = Call("DomainACL.Add", domains, "", FALSE, NoErr, NoPerm,
                           DomainACLView(dACL))
    /\ handed' \in SlicesAfterAppend(handed)
    /\ UNCHANGED <<ipacl, dAcl, mapOrder, inputs, listFile, mu, procs>>

DomainACLRemove ==
    /\ ~dACL.isNil
    /\ \E domains \in ArgLists(inputs.texts) :
           \E r \in {DomainACL_Remove(dACL, domains)} :
               /\ dACL' = r.acl
               /\ last' = Call("DomainACL.Remove", domains, "", FALSE, r.err, NoPerm,
                               DomainACLView(dACL))
               /\ handed' = (IF r.err = NoErr THEN SliceAfterReplace(handed) ELSE handed)
    /\ UNCHANGED <<ipacl, dAcl, mapOrder, inputs, listFile, mu, procs>>

DomainACLCheck ==
    /\ ~dACL.isNil
    /\ \E domain \in DomainCheckTexts :
           \E r \in {DomainACL_Check(dACL, domain)} :
               last' = Call("DomainACL.Check", <<domain>>, "", FALSE, r.err, r.perm,
                            DomainACLView(dACL))
    /\ UNCHANGED <<ipacl, dACL, dAcl, mapOrder, inputs, handed, listFile, mu, procs>>

\* the program constructs a DomainAcl
InitDomainAcl ==
    \E in \in DomainInputs :
        \E domains \in ArgLists(in.texts), listType \in ListTypes,
           includeSubdomains \in BOOLEAN :
            /\ inputs = in
            /\ dAcl = NewDomainAcl(domains, listType, includeSubdomains)
            /\ last = Call("NewDomainAcl", domains, "", FALSE, NoErr, NoPerm,
                           DomainAclView(NilDomainAcl))
            /\ ipacl = NilIPAcl
            /\ dACL = NilDomainACL
            /\ handed = NoSlice
            /\ listFile = NoFile
            /\ mu = Unlocked
            /\ procs = [p \in Goroutines |-> Idle]
            /\ mapOrder = PredefinedSetNames

DomainAclAdd ==
    /\ ~dAcl.isNil
    /\ \E domains \in ArgLists(inputs.texts) :
           /\ dAcl' = DomainAcl_Add(dAcl, domains)
           /\ last' = Call("DomainAcl.Add", domains, "", FALSE, NoErr, NoPerm,
                           DomainAclView(dAcl))
    /\ handed' \in SlicesAfterAppend(handed)
    /\ UNCHANGED <<ipacl, dACL, mapOrder, inputs, listFile, mu, procs>>

DomainAclRemove ==
    /\ ~dAcl.isNil
    /\ \E domains \in ArgLists(inputs.texts) :
           \E r \in {DomainAcl_Remove(dAcl, domains)} :
               /\ dAcl' = r.acl
               /\ last' = Call("DomainAcl.Remove", domains, "", FALSE, r.err, NoPerm,
                               DomainAclView(dAcl))
               /\ handed' = SliceAfterShift(handed, r.acl.domains)
    /\ UNCHANGED <<ipacl, dACL, mapOrder, inputs, listFile, mu, procs>>

DomainAclCheck ==
    /\ ~dAcl.isNil
    /\ \E domain \in DomainCheckTexts :
           \E r \in {DomainAcl_Check(dAcl, domain)} :
               last' = Call("DomainAcl.Check", <<domain>>, "", FALSE, r.err, r.perm,
                            DomainAclView(dAcl))
    /\ UNCHANGED <<ipacl, dACL, dAcl, mapOrder, inputs, handed, listFile, mu, procs>>

\* the caller asks a DomainACL for its list and keeps what it gets
DomainACLGetDomains ==
    /\ ~dACL.isNil
    /\ inputs.keeps
    /\ ~handed.held
    /\ handed' = DomainACL_GetDomains_slice(dACL)
    /\ last' = Call("DomainACL.GetDomains", <<>>, "", FALSE, NoErr, NoPerm,
                    DomainACLView(dACL))
    /\ UNCHANGED <<ipacl, dACL, dAcl, mapOrder, inputs, listFile, mu, procs>>

\* the caller asks a DomainAcl for its list and keeps what it gets
DomainAclGetDomains ==
    /\ ~dAcl.isNil
    /\ inputs.keeps
    /\ ~handed.held
    /\ handed' = DomainAcl_GetDomains_slice(dAcl)
    /\ last' = Call("DomainAcl.GetDomains", <<>>, "", FALSE, NoErr, NoPerm,
                    DomainAclView(dAcl))
    /\ UNCHANGED <<ipacl, dACL, dAcl, mapOrder, inputs, listFile, mu, procs>>

\* the caller writes the first element of the slice it holds; the list of an
\* IP matcher holds IPRange values, which no []string shares
CallerWrites ==
    /\ handed.held
    /\ handed.items # <<>>
    /\ handed.items[1] # Modified
    /\ handed' = SliceWrite(handed, Modified)
    /\ dACL' = (IF dACL.isNil THEN dACL
                ELSE [dACL EXCEPT !.domains = ListAfterWrite(@, handed, Modified)])
    /\ dAcl' = (IF dAcl.isNil THEN dAcl
                ELSE [dAcl EXCEPT !.domains = ListAfterWrite(@, handed, Modified)])
    /\ last' = Call("write", <<Modified>>, "", FALSE, NoErr, NoPerm, last.before)
    /\ UNCHANGED <<ipacl, mapOrder, inputs, listFile, mu, procs>>

-----------------------------------------------------------------------------

Init ==
    \/ InitIP
    \/ InitDomainACL
    \/ InitDomainAcl

Next ==
    \/ IPAdd
    \/ IPRemove
    \/ IPCheck
    \/ IPAddPredefinedSet
    \/ DomainACLAdd
    \/ DomainACLRemove
    \/ DomainACLCheck
    \/ DomainAclAdd
    \/ DomainAclRemove
    \/ DomainAclCheck
    \/ IPGetIPRanges
    \/ DomainACLGetDomains
    \/ DomainAclGetDomains
    \/ CallerWrites
    \/ IPSaveToFile
    \/ IPNewIPAclFromFile

Spec == Init /\ [][Next]_vars

-----------------------------------------------------------------------------
(* The calls made on the Manager by its goroutines.                        *)

\* the calls the goroutines of a run make: SetDomainACL carries
\* includeSubdomains in allow
ManagerInputs ==
    { [calls |-> {ManagerCall("SetIPACL", <<Host10>>, <<>>, FALSE, Blacklist),
                  ManagerCall("AddIP", <<Net10, Host10Full>>, <<>>, FALSE, "-"),
                  ManagerCall("RemoveIP", <<Host10, Net10>>, <<>>, FALSE, "-"),
                  ManagerCall("CheckIP", <<Other10>>, <<>>, FALSE, "-"),
                  ManagerCall("Reset", <<>>, <<>>, FALSE, "-")}],
      [calls |-> {ManagerCall("SetIPACL", <<Net10>>, <<>>, FALSE, Whitelist),
                  ManagerCall("SetIPACL", <<Host10, NotAnIP>>, <<>>, FALSE, Blacklist),
                  ManagerCall("SetIPACLWithDefaults", <<Host10>>,
                              <<LoopbackNetworks>>, FALSE, Blacklist),
                  ManagerCall("SetIPACLWithDefaults", <<Host10>>,
                              <<LoopbackNetworks, "invalid_set">>, TRUE, Whitelist),
                  ManagerCall("AddIP", <<Host10Full, NotAnIP>>, <<>>, FALSE, "-"),
                  ManagerCall("GetIPRanges", <<>>, <<>>, FALSE, "-"),
                  ManagerCall("GetIPACLType", <<>>, <<>>, FALSE, "-")}],
      [calls |-> {ManagerCall("SetIPACL", <<>>, <<>>, FALSE, Blacklist),
                  ManagerCall("AddPredefinedIPSet", <<>>, <<LoopbackNetworks>>, FALSE, "-"),
                  ManagerCall("AddPredefinedIPSet", <<>>, <<"invalid_set">>, FALSE, "-"),
                  ManagerCall("AddAllSpecialNetworks", <<>>, <<>>, FALSE, "-"),
                  ManagerCall("CheckIP", <<Loop4>>, <<>>, FALSE, "-")}],
      [calls |-> {ManagerCall("SetDomainACL", <<DomPlain>>, <<>>, TRUE, Blacklist),
                  ManagerCall("AddDomain", <<DomOther, DomSub>>, <<>>, FALSE, "-"),
                  ManagerCall("RemoveDomain", <<DomPlain, DomOther>>, <<>>, FALSE, "-"),
                  ManagerCall("CheckDomain", <<DomSub>>, <<>>, FALSE, "-"),
                  ManagerCall("GetDomains", <<>>, <<>>, FALSE, "-"),
                  ManagerCall("GetDomainACLType", <<>>, <<>>, FALSE, "-")}],
      [calls |-> {ManagerCall("SetIPACLFromFile", <<>>, <<>>, FALSE, Whitelist),
                  ManagerCall("AddIPFromFile", <<>>, <<>>, FALSE, "-"),
                  ManagerCall("SetDomainACL", <<DomPlain>>, <<>>, FALSE, Whitelist),
                  ManagerCall("CheckIP", <<Host10>>, <<>>, FALSE, "-"),
                  ManagerCall("CheckDomain", <<DomPlain>>, <<>>, FALSE, "-"),
                  ManagerCall("Reset", <<>>, <<>>, FALSE, "-")}] }

\* AddAllSpecialNetworks calls AddPredefinedIPSet, and holds no lock when it does
Manager_called(call) ==
    IF call.op = "AddAllSpecialNetworks"
    THEN ManagerCall("AddPredefinedIPSet", <<>>, <<AllSpecialNetworks>>, FALSE, "-")
    ELSE call

\* the unlock missing on the paths that return an error
RWMutex_Unlock_NotOnError(m, p) ==
    IF procs[p].err # NoErr THEN m
    ELSE IF m.writer = p
    THEN [m EXCEPT !.w = 0, !.writer = 0, !.readers = m.rwait, !.rwait = {}]
    ELSE [m EXCEPT !.readers = @ \ {p}]

\* the deferred m.mu.Unlock() or m.mu.RUnlock() of goroutine p: Unlock()
\* gives the read lock to the goroutines that wait inside RLock()
RWMutex_Unlock(m, p) ==
    IF m.writer = p
    THEN [m EXCEPT !.w = 0, !.writer = 0, !.readers = m.rwait, !.rwait = {}]
    ELSE [m EXCEPT !.readers = @ \ {p}]

\* NewManager: no matcher is set, the lock is free, and a list file holding
\* "10.0.0.1" and "10.0.0.0/8" is there to load
MInit ==
    /\ inputs \in ManagerInputs
    /\ ipacl = NilIPAcl
    /\ dACL = NilDomainACL
    /\ dAcl = NilDomainAcl
    /\ mu = Unlocked
    /\ procs = [p \in Goroutines |-> Idle]
    /\ last = Call("NewManager", <<>>, "", FALSE, NoErr, NoPerm, IPView(NilIPAcl))
    /\ mapOrder \in MapOrders
    /\ handed = NoSlice
    /\ listFile \in ManagerFiles

\* goroutine p calls a method: a Set method builds its matcher, and the
\* method calls Lock() or RLock() unless it returns at once
MCall(p) ==
    /\ procs[p].pc = "idle"
    /\ \E c \in {Manager_called(call) : call \in inputs.calls} :
           \E r \in {Manager_build(c, PredefinedSets, listFile)} :
               \E pc \in {Manager_enter(c, r.err)} :
                   /\ procs' = [procs EXCEPT ![p] = [Idle EXCEPT !.pc = pc, !.call = c,
                                                                 !.acl = r.acl,
                                                                 !.err = r.err]]
                   /\ mu' = (IF pc # "lock" THEN mu
                             ELSE IF c.op \in WriteLocked
                             THEN [mu EXCEPT !.pending = @ \cup {p}]
                             ELSE RWMutex_RLock(mu, p))
    /\ UNCHANGED <<ipacl, dACL, dAcl, last, mapOrder, inputs, handed, listFile>>

\* m.mu.Lock() or m.mu.RLock() goes on in goroutine p, and returns when p
\* holds the lock
MAcquire(p) ==
    /\ procs[p].pc = "lock"
    /\ IF procs[p].call.op \in WriteLocked
       THEN /\ RWMutex_CanLock(mu, p)
            /\ mu' = RWMutex_Lock(mu, p)
            /\ procs' = [procs EXCEPT ![p].pc = IF mu.w = p THEN "body" ELSE "lock"]
       ELSE /\ p \in mu.readers
            /\ mu' = mu
            /\ procs' = [procs EXCEPT ![p].pc = "body"]
    /\ UNCHANGED <<ipacl, dACL, dAcl, last, mapOrder, inputs, handed, listFile>>

\* goroutine p runs the next statement of its method on the matchers: the
\* nil test with the call of the matcher's method, one iteration of an Add
\* loop, or one assignment of Reset
MStep(p) ==
    /\ procs[p].pc \in {"body", "add", "ip"}
    /\ IF procs[p].call.op \in DomainSide \/ (procs[p].call.op = "Reset" /\ procs[p].pc = "body")
       THEN \E r \in {Manager_domain(procs[p], dACL)} :
                /\ procs' = [procs EXCEPT ![p] = r.pr]
                /\ dACL' = r.domainACL
                /\ ipacl' = ipacl
       ELSE \E r \in {Manager_ip(procs[p], ipacl, PredefinedSets, listFile)} :
                /\ procs' = [procs EXCEPT ![p] = r.pr]
                /\ ipacl' = r.ipACL
                /\ dACL' = dACL
    /\ UNCHANGED <<dAcl, last, mapOrder, inputs, handed, listFile, mu>>

\* the method returns in goroutine p, its deferred unlock having run
MReturn(p) ==
    /\ procs[p].pc = "return"
    /\ mu' = RWMutex_Unlock(mu, p)
    /\ procs' = [procs EXCEPT ![p] = Idle]
    /\ UNCHANGED <<ipacl, dACL, dAcl, last, mapOrder, inputs, handed, listFile>>

MNext ==
    \E p \in Goroutines :
        \/ MCall(p)
        \/ MAcquire(p)
        \/ MStep(p)
        \/ MReturn(p)

ManagerSpec == MInit /\ [][MNext]_vars

\* the scheduler runs every goroutine that can run; sync.Mutex hands the lock
\* to a goroutine that has waited (starvation mode), and a waiting writer
\* keeps new readers out
ManagerFairSpec ==
    /\ ManagerSpec
    /\ \A p \in Goroutines :
           /\ WF_vars(MStep(p))
           /\ WF_vars(MReturn(p))
           /\ SF_vars(MAcquire(p))

-----------------------------------------------------------------------------
(* The properties of the matchers.                                         *)

\* the decision table: Denied iff (mode = Blacklist) = matched
Decision(mode, matched) == IF (mode = Blacklist) = matched THEN Denied ELSE Allowed

\* the strings GetIPRanges returns now
StoredRanges == IPView(ipacl).list

\* the absorbing combinations of mode and flag
Absorbing(mode, allow) == (mode = Blacklist /\ ~allow) \/ (mode = Whitelist /\ allow)

\* s is a prefix of t
IsPrefix(s, t) == Len(s) <= Len(t) /\ SubSeq(t, 1, Len(s)) = s

\* a and b agree on their first n bits: on their first n \div 8 bytes and on
\* the n % 8 high bits of the next one
SamePrefix(a, b, n) ==
    LET q == n \div 8
        r == n % 8
    IN  /\ SubSeq(a, 1, q) = SubSeq(b, 1, q)
        /\ r # 0 => a[q + 1] \div Pow2(8 - r) = b[q + 1] \div Pow2(8 - r)

\* a block as its text writes it: the family the text is written in (32 or 128
\* bits), the address in 16 bytes (an IPv4 address a.b.c.d as ::ffff:a.b.c.d)
\* and the prefix length
BlockOfText(original) ==
    LET i == Index(original, <<"/">>)
        a == ParseAddr(IF i = -1 THEN original ELSE Slice(original, 0, i))
    IN  [bits |-> a.bitlen, addr |-> a.a16,
         prefix |-> IF i = -1 THEN a.bitlen ELSE DecVal(SliceFrom(original, i + 1))]

\* BlockOfText over the blocks and addresses of the model
BlockOf ==
    [s \in {TrimSpace(x) : x \in {y \in RangeTexts \cup CheckTexts :
                                     parseIPRange(y).err = NoErr}}
        |-> BlockOfText(s)]

\* the value of an address or block base in the family its text is written in
FamilyBytes(b) == IF b.bits = 32 THEN SubSeq(b.addr, 13, 16) ELSE b.addr

\* block B contains address A, each in the family its text is written in
ContainsAsWritten(B, A) ==
    /\ B.bits = A.bits
    /\ SamePrefix(FamilyBytes(B), FamilyBytes(A), B.prefix)

\* the prefix length of a block in the 128-bit form
Prefix128(b) == b.prefix + (128 - b.bits)

\* an IPv4 address, in dotted or in IPv4-mapped IPv6 notation
IsIPv4Address(A) == SubSeq(A.addr, 1, 12) = v4InV6Prefix

\* an IPv4 block, in dotted or in IPv4-mapped IPv6 notation
IsIPv4Block(B) == SubSeq(B.addr, 1, 12) = v4InV6Prefix /\ Prefix128(B) >= 96

\* block B contains address A, IPv4-mapped IPv6 notation being IPv4
ContainsMapped(B, A) ==
    /\ IsIPv4Block(B) <=> IsIPv4Address(A)
    /\ SamePrefix(B.addr, A.addr, Prefix128(B))

\* the texts Check parses as a bare address
ParseableAddresses == {ip \in CheckTexts : ParseIPOf[TrimSpace(ip)] # <<>>}

\* C1: every check of a valid input returns Denied iff (mode = Blacklist) =
\* matched, and Allowed otherwise, on the IP matcher and on both domain
\* matchers alike
C1_DecisionPolicy ==
    /\ (last.op = "Check" /\ ParseIPOf[TrimSpace(last.args[1])] # <<>>) =>
           /\ last.err = NoErr
           /\ last.perm = Decision(IPAcl_GetListType(ipacl),
                              IPAcl_matchIP(ipacl, ParseIPOf[TrimSpace(last.args[1])]))
    /\ (last.op = "DomainACL.Check" /\ DomainACL_normalizeDomainOf[last.args[1]] # <<>>) =>
           /\ last.err = NoErr
           /\ last.perm = Decision(DomainACL_GetListType(dACL),
                              DomainACL_matchDomain(dACL,
                                  DomainACL_normalizeDomainOf[last.args[1]]))
    /\ (last.op = "DomainAcl.Check" /\ DomainAcl_normalizeDomainOf[last.args[1]] # <<>>) =>
           /\ last.err = NoErr
           /\ last.perm = Decision(DomainAcl_GetListType(dAcl),
                              DomainAcl_matchDomain(dAcl,
                                  DomainAcl_normalizeDomainOf[last.args[1]]))

\* C1, its case: a whitelist IP matcher has just allowed an address it matches
C1_Witness ==
    /\ last.op = "Check"
    /\ last.err = NoErr
    /\ IPAcl_GetListType(ipacl) = Whitelist
    /\ IPAcl_matchIP(ipacl, ParseIPOf[TrimSpace(last.args[1])])
    /\ last.perm = Allowed

\* C2 as amended: an address is matched iff some stored range contains it,
\* whatever the order and the number of the ranges, where the dotted and the
\* IPv4-mapped IPv6 notations (::ffff:a.b.c.d, prefix 96 + p) are one family,
\* IPv4; across the families so defined nothing matches
C2_ContainmentMapped ==
    ~ipacl.isNil =>
        \A ip \in ParseableAddresses :
            IPAcl_matchIP(ipacl, ParseIPOf[TrimSpace(ip)])
                <=> \E i \in 1..Len(StoredRanges) :
                        ContainsMapped(BlockOf[StoredRanges[i]], BlockOf[TrimSpace(ip)])

\* C2, its case: a blacklist holding 10.0.0.0/8 has just denied ::ffff:10.0.0.1
C2_Witness ==
    /\ last.op = "Check"
    /\ last.args = <<MappedHost10>>
    /\ StoredRanges = <<Net10>>
    /\ IPAcl_GetListType(ipacl) = Blacklist
    /\ last.perm = Denied

\* C2 as stated: an address is matched iff some stored range contains it under
\* the prefix arithmetic of the family the address is written in; an address
\* written as IPv6 never matches a block written as IPv4, nor the converse
C2_ContainmentAsWritten ==
    ~ipacl.isNil =>
        \A ip \in ParseableAddresses :
            IPAcl_matchIP(ipacl, ParseIPOf[TrimSpace(ip)])
                <=> \E i \in 1..Len(StoredRanges) :
                        ContainsAsWritten(BlockOf[StoredRanges[i]], BlockOf[TrimSpace(ip)])

\* the blocks of the catalog's sets, all_special_networks left aside
CatalogBlocks == UNION {Range(PredefinedSetsLiteral[n]) : n \in DOMAIN PredefinedSetsLiteral}

\* C3: after AddPredefinedSet succeeds in an absorbing combination every block
\* of the set is listed and every entry listed before is still listed; and
\* whenever a block of the catalog is stored, a check of an address inside it
\* returns Denied on a blacklist and Allowed on a whitelist
C3_AbsorbedSetDecides ==
    /\ (/\ last.op = "AddPredefinedSet"
        /\ last.err = NoErr
        /\ Absorbing(last.before.listType, last.allow)) =>
           /\ Range(PredefinedSets[last.set]) \subseteq Range(StoredRanges)
           /\ Range(last.before.list) \subseteq Range(StoredRanges)
    /\ last.op = "Check" =>
           \A i \in 1..Len(StoredRanges) :
               (/\ StoredRanges[i] \in CatalogBlocks
                /\ last.args[1] \in ParseableAddresses
                /\ ContainsMapped(BlockOf[StoredRanges[i]], BlockOf[TrimSpace(last.args[1])])) =>
                   /\ last.err = NoErr
                   /\ last.perm = (IF IPAcl_GetListType(ipacl) = Blacklist THEN Denied
                                   ELSE Allowed)

\* C3, its case: a blacklist that absorbed private_networks has just denied
\* 10.0.0.1
C3_Witness ==
    /\ last.op = "Check"
    /\ last.args = <<Host10>>
    /\ Range(PredefinedSets[PrivateNetworks]) \subseteq Range(StoredRanges)
    /\ IPAcl_GetListType(ipacl) = Blacklist
    /\ last.perm = Denied

\* C4: AddPredefinedSet with a known set changes the list only in an absorbing
\* combination; in the two other combinations it returns nil and leaves the
\* list and the mode as they were
C4_AbsorptionRule ==
    (last.op = "AddPredefinedSet" /\ last.set \in DOMAIN PredefinedSets) =>
        /\ StoredRanges # last.before.list => Absorbing(last.before.listType, last.allow)
        /\ ~Absorbing(last.before.listType, last.allow) =>
               /\ last.err = NoErr
               /\ IPView(ipacl) = last.before

\* C4, its case: a known set was offered in a combination that does not
\* absorb, to a matcher that holds entries
C4_Witness ==
    /\ last.op = "AddPredefinedSet"
    /\ last.set = PrivateNetworks
    /\ ~Absorbing(last.before.listType, last.allow)
    /\ last.err = NoErr
    /\ Len(StoredRanges) > 0

\* C5: AddPredefinedSet with a name the catalog does not hold returns
\* ErrInvalidPredefinedSet, whatever the mode and the flag, and leaves the list
\* as it was
C5_UnknownSet ==
    (last.op = "AddPredefinedSet" /\ last.set \notin DOMAIN PredefinedSets) =>
        /\ last.err = ErrInvalidPredefinedSet
        /\ IPView(ipacl) = last.before

\* C5, its case: an unknown name was offered in a combination that would not
\* absorb
C5_Witness ==
    /\ last.op = "AddPredefinedSet"
    /\ last.set \notin DOMAIN PredefinedSets
    /\ ~Absorbing(last.before.listType, last.allow)
    /\ last.err = ErrInvalidPredefinedSet

\* C6 as stated: no two stored entries of an IP matcher have the same original
\* string
C6_NoDuplicateOriginals ==
    \A i, j \in 1..Len(StoredRanges) : StoredRanges[i] = StoredRanges[j] => i = j

\* the normalized form of the specification: non-empty, lower-case, no scheme,
\* credentials, port, path, query, fragment or leading "www."
IsNormalForm(s) ==
    /\ s # <<>>
    /\ ToLower(s) = s
    /\ ~HasPrefix(s, DoubleSlash)
    /\ ~HasPrefix(s, SchemeHTTP)
    /\ ~HasPrefix(s, SchemeHTTPS)
    /\ \A i \in 1..Len(s) : s[i] \notin {"@", ":", "/", "?", "#"}
    /\ ~HasPrefix(s, WWWPrefix)

\* the domains the live domain matcher stores
StoredDomains ==
    IF ~dACL.isNil THEN DomainACL_GetDomains(dACL)
    ELSE IF ~dAcl.isNil THEN DomainAcl_GetDomains(dAcl)
    ELSE <<>>

\* C7 as stated: every string a domain matcher stores is non-empty and in
\* normalized form
C7_StoredNormalized == \A i \in 1..Len(StoredDomains) : IsNormalForm(StoredDomains[i])

\* C8 as stated: no two stored domains of a domain matcher are equal
C8_NoDuplicateDomains ==
    \A i, j \in 1..Len(StoredDomains) : StoredDomains[i] = StoredDomains[j] => i = j

\* entry b is neither blank nor parseable
Unparseable(b) == TrimSpace(b) # <<>> /\ parseIPRangeOf[b].err # NoErr

\* the index of the first unparseable entry of bs, Len(bs) + 1 when none is
FirstUnparseable(bs) ==
    IF \E k \in 1..Len(bs) : Unparseable(bs[k])
    THEN SetMin({k \in 1..Len(bs) : Unparseable(bs[k])})
    ELSE Len(bs) + 1

\* C9: Add(b1..bn) returns the parse error of its first unparseable entry bk
\* (nil when there is none); what it appended is exactly the non-empty entries
\* among b1..b(k-1) not stored before, once each, after the entries stored
\* before; nothing of bk..bn is appended
C9_AddNotAtomic ==
    last.op = "Add" =>
        LET bs     == last.args
            k      == FirstUnparseable(bs)
            before == last.before.list
            fresh  == {TrimSpace(bs[j]) : j \in 1..(k - 1)} \ ({<<>>} \cup Range(before))
            suffix == SubSeq(StoredRanges, Len(before) + 1, Len(StoredRanges))
        IN  /\ last.err = (IF k <= Len(bs) THEN parseIPRangeOf[bs[k]].err ELSE NoErr)
            /\ IsPrefix(before, StoredRanges)
            /\ Range(suffix) = fresh
            /\ Len(suffix) = Cardinality(fresh)

\* C9, its case: Add has failed and the list is longer than before
C9_Witness ==
    /\ last.op = "Add"
    /\ last.err # NoErr
    /\ Len(StoredRanges) > Len(last.before.list)

\* the non-blank entries of bs, trimmed, in order
RECURSIVE NonBlankTrimmed(_)
NonBlankTrimmed(bs) ==
    IF bs = <<>> THEN <<>>
    ELSE IF TrimSpace(Head(bs)) = <<>> THEN NonBlankTrimmed(Tail(bs))
    ELSE <<TrimSpace(Head(bs))>> \o NonBlankTrimmed(Tail(bs))

\* C10: NewIPAcl skips the empty and the whitespace-only strings; with an
\* unparseable entry it returns the parse error and no matcher, else a matcher
\* of the mode asked for that lists the other entries in order
C10_ConstructAllOrNothing ==
    last.op = "NewIPAcl" =>
        IF FirstUnparseable(last.args) <= Len(last.args)
        THEN /\ ipacl.isNil
             /\ last.err = parseIPRangeOf[last.args[FirstUnparseable(last.args)]].err
        ELSE /\ ~ipacl.isNil
             /\ last.err = NoErr
             /\ StoredRanges = NonBlankTrimmed(last.args)

\* C10, its case: the list held an empty string before a block, and the
\* matcher holds the block
C10_Witness ==
    /\ last.op = "NewIPAcl"
    /\ last.args = <<EmptyText, Net10>>
    /\ StoredRanges = <<Net10>>

\* the elements of s that are not in dropped, in order
Without(s, dropped) ==
    LET kept(x) == x \notin dropped
    IN  SelectSeq(s, kept)

\* C11 as amended: Remove compares the requested strings with the stored
\* originals as they are written; it removes every stored entry that is
\* requested and no other, keeping the order of the rest, also when it fails;
\* it returns ErrIPNotFound when a requested string that is not blank is not
\* stored, when nothing is requested and when the list is empty, and nil
\* otherwise: a blank requested string is passed over
C11_RemoveExact ==
    last.op = "Remove" =>
        /\ StoredRanges = Without(last.before.list, Range(last.args))
        /\ last.err = (IF \/ last.args = <<>>
                          \/ last.before.list = <<>>
                          \/ \E k \in Range(last.args) :
                                 k \notin Range(last.before.list) /\ TrimSpace(k) # <<>>
                       THEN ErrIPNotFound ELSE NoErr)

\* C11, its case: Remove has removed a stored entry and returned ErrIPNotFound
\* for another requested string
C11_Witness ==
    /\ last.op = "Remove"
    /\ Len(last.args) = 2
    /\ last.err = ErrIPNotFound
    /\ Len(StoredRanges) < Len(last.before.list)

\* C11 as stated: Remove removes every stored entry that is requested and no
\* other, and returns ErrIPNotFound whenever a requested string is not stored
C11_RemoveReportsEveryMissing ==
    last.op = "Remove" =>
        /\ StoredRanges = Without(last.before.list, Range(last.args))
        /\ (\E k \in Range(last.args) : k \notin Range(last.before.list)) =>
               last.err = ErrIPNotFound

\* the normalized forms of the arguments of the last call on a domain matcher,
\* the empty ones left out
RequestedDomains ==
    IF last.op = "DomainACL.Remove"
    THEN {DomainACL_normalizeDomainOf[last.args[j]] : j \in 1..Len(last.args)} \ {<<>>}
    ELSE {DomainAcl_normalizeDomainOf[last.args[j]] : j \in 1..Len(last.args)} \ {<<>>}

\* C12 as stated: when Remove on a domain matcher names, after normalization,
\* a stored domain and a domain that is not stored, no requested domain is
\* stored afterwards and the call returns ErrDomainNotFound
C12_DomainRemovePartial ==
    (/\ last.op \in {"DomainACL.Remove", "DomainAcl.Remove"}
     /\ \E x \in RequestedDomains : x \in Range(last.before.list)
     /\ \E x \in RequestedDomains : x \notin Range(last.before.list)) =>
        /\ last.err = ErrDomainNotFound
        /\ \A x \in RequestedDomains : x \notin Range(StoredDomains)

\* the subdomain flag of the live domain matcher
IncludeSubdomains ==
    IF ~dACL.isNil THEN dACL.includeSubdomains ELSE dAcl.includeSubdomains

\* the list type of the live domain matcher
DomainListType ==
    IF ~dACL.isNil THEN DomainACL_GetListType(dACL) ELSE DomainAcl_GetListType(dAcl)

\* the normalized form of the domain the last Check was given
CheckedDomain ==
    IF last.op = "DomainACL.Check" THEN DomainACL_normalizeDomainOf[last.args[1]]
    ELSE DomainAcl_normalizeDomainOf[last.args[1]]

\* the last Check answered as for a matched domain
AnsweredMatched == last.perm = (IF DomainListType = Blacklist THEN Denied ELSE Allowed)

\* x is d, or a subdomain of d when subdomains are included
CoveredBy(x, d, sub) ==
    \/ x = d
    \/ /\ sub
       /\ Len(x) > Len(d)
       /\ SubSeq(x, Len(x) - Len(d), Len(x)) = <<".">> \o d

\* C13: a check of a domain whose normalized form x is not empty answers as
\* matched iff some stored domain d is x, or includeSubdomains is set and x
\* ends with "." followed by d; with a.io alone stored, b.a.io and c.b.a.io
\* are matched exactly when includeSubdomains is set, ba.io and c.io never
C13_DomainSuffix ==
    (last.op \in {"DomainACL.Check", "DomainAcl.Check"} /\ last.err = NoErr) =>
        /\ AnsweredMatched <=>
               \E i \in 1..Len(StoredDomains) :
                   CoveredBy(CheckedDomain, StoredDomains[i], IncludeSubdomains)
        /\ StoredDomains = <<DomPlain>> =>
               /\ last.args[1] \in {DomSub, DomSubSub} => (AnsweredMatched <=> IncludeSubdomains)
               /\ last.args[1] \in {DomSibling, DomOther} => ~AnsweredMatched

\* C13, its case: a blacklist of a.io with subdomains included has just denied
\* c.b.a.io
C13_Witness ==
    /\ last.op = "DomainACL.Check"
    /\ last.args = <<DomSubSub>>
    /\ StoredDomains = <<DomPlain>>
    /\ IncludeSubdomains
    /\ DomainListType = Blacklist
    /\ last.perm = Denied

\* the calls on a DomainACL, the calls on a DomainAcl
DomainACLCalls == {"NewDomainACL", "DomainACL.Add", "DomainACL.Remove", "DomainACL.Check"}
DomainAclCalls == {"NewDomainAcl", "DomainAcl.Add", "DomainAcl.Remove", "DomainAcl.Check"}

\* C14 as stated: normalizing the normalized form of any string a domain
\* matcher is given returns it unchanged, for the normalizeDomain of DomainACL
\* and for that of DomainAcl
C14_NormalizeIdempotent ==
    /\ last.op \in DomainACLCalls =>
           \A j \in 1..Len(last.args) :
               DomainACL_normalizeDomain(DomainACL_normalizeDomainOf[last.args[j]])
                   = DomainACL_normalizeDomainOf[last.args[j]]
    /\ last.op \in DomainAclCalls =>
           \A j \in 1..Len(last.args) :
               DomainAcl_normalizeDomain(DomainAcl_normalizeDomainOf[last.args[j]])
                   = DomainAcl_normalizeDomainOf[last.args[j]]

\* the last Check on the IP matcher answered as for a matched address
AnsweredMatchedIP ==
    last.perm = (IF IPAcl_GetListType(ipacl) = Blacklist THEN Denied ELSE Allowed)

\* the one stored entry is an address: written bare, or with the full-width
\* mask of the family it is written in
HoldsOneAddress ==
    /\ ~ipacl.isNil
    /\ Len(StoredRanges) = 1
    /\ BlockOf[StoredRanges[1]].prefix = BlockOf[StoredRanges[1]].bits

\* C15 as amended: a matcher holding the address X alone, written bare or with
\* the full-width mask, matches a checked address Y iff Y is the address X, an
\* IPv4 address and its IPv4-mapped IPv6 notation being the same address; the
\* two ways of writing X so answer every check alike
C15_BareAsFullWidth ==
    (last.op = "Check" /\ last.err = NoErr /\ HoldsOneAddress) =>
        (AnsweredMatchedIP
            <=> BlockOf[StoredRanges[1]].addr = BlockOf[TrimSpace(last.args[1])].addr)

\* C15, its case: a whitelist holding 10.0.0.1/32 has just allowed 10.0.0.1
C15_Witness ==
    /\ last.op = "Check"
    /\ last.args = <<Host10>>
    /\ StoredRanges = <<Host10Full>>
    /\ IPAcl_GetListType(ipacl) = Whitelist
    /\ last.perm = Allowed

\* C15 as stated: a matcher holding the address X alone, written bare or with
\* the full-width mask, matches a checked address Y iff Y is X in the family
\* each is written in
C15_BareAsFullWidthAsWritten ==
    (last.op = "Check" /\ last.err = NoErr /\ HoldsOneAddress) =>
        (AnsweredMatchedIP
            <=> ContainsAsWritten(BlockOf[StoredRanges[1]], BlockOf[TrimSpace(last.args[1])]))

\* what GetPredefinedIPRanges returns for all_special_networks
AllBlocks == GetPredefinedIPRanges(PredefinedSets, AllSpecialNetworks).items

\* the blocks of the categories other than all_special_networks
OtherBlocks ==
    UNION {Range(GetPredefinedIPRanges(PredefinedSets, n).items) :
               n \in (DOMAIN PredefinedSets) \ {AllSpecialNetworks}}

\* C16: in every state, in whatever order init() ranged over the map, a block
\* is in all_special_networks iff it is in another category, no block occurs
\* in it twice, and it holds one entry per block of the other categories, so
\* nothing it held itself was added to it
C16_AllIsUnion ==
    /\ Range(AllBlocks) = OtherBlocks
    /\ \A i, j \in 1..Len(AllBlocks) : AllBlocks[i] = AllBlocks[j] => i = j
    /\ Len(AllBlocks) = Cardinality(OtherBlocks)

\* C16, its case: init() ranged over the map in the reverse of the source
\* order, and a blacklist has absorbed all_special_networks
C16_Witness ==
    /\ mapOrder = Reverse(PredefinedSetNames)
    /\ last.op = "AddPredefinedSet"
    /\ last.set = AllSpecialNetworks
    /\ last.err = NoErr
    /\ OtherBlocks \subseteq Range(StoredRanges)

\* C17: an entry is known by its text alone. After a successful NewIPAcl or
\* Add every non-blank argument is stored under its trimmed text, whatever
\* the stored entries already cover; Remove takes away the entries whose text
\* is requested and leaves every other entry, also one that denotes the same
\* or an overlapping network; and after it an address is matched iff a
\* remaining entry contains it
C17_EntriesByText ==
    /\ (last.op \in {"NewIPAcl", "Add"} /\ last.err = NoErr) =>
           \A j \in 1..Len(last.args) :
               TrimSpace(last.args[j]) # <<>> =>
                   \E i \in 1..Len(StoredRanges) : StoredRanges[i] = TrimSpace(last.args[j])
    /\ last.op = "Remove" =>
           /\ \A i \in 1..Len(last.before.list) :
                  last.before.list[i] \notin Range(last.args) =>
                      last.before.list[i] \in Range(StoredRanges)
           /\ \A ip \in ParseableAddresses :
                  IPAcl_Check(ipacl, ip).perm = Decision(IPAcl_GetListType(ipacl),
                      \E i \in 1..Len(StoredRanges) :
                          ContainsMapped(BlockOf[StoredRanges[i]], BlockOf[TrimSpace(ip)]))

\* C17, its case: 10.0.0.0/8 and 10.0.0.1 were both stored, 10.0.0.1 has been
\* removed and 10.0.0.0/8 is still stored
C17_Witness ==
    /\ last.op = "Remove"
    /\ last.args = <<Host10>>
    /\ last.before.list = <<Net10, Host10>>
    /\ last.err = NoErr
    /\ StoredRanges = <<Net10>>

\* C18: a write by the caller into the slice a getter returned changes no
\* matcher, so neither a stored list nor the answer of a later check; and no
\* call on the matcher changes the elements of a slice returned before it
C18_IndependentCopy ==
    [][/\ last'.op = "write" => (ipacl' = ipacl /\ dACL' = dACL /\ dAcl' = dAcl)
       /\ (handed.held /\ last'.op # "write") => handed'.items = handed.items]_vars

\* C18, its case: the caller wrote into the slice GetDomains returned, the
\* DomainAcl has since removed a domain, and its list does not hold what the
\* caller wrote
C18_Witness ==
    /\ last.op = "DomainAcl.Remove"
    /\ last.err = NoErr
    /\ handed.held
    /\ handed.items # <<>>
    /\ handed.items[1] = Modified
    /\ Len(handed.items) > Len(StoredDomains)
    /\ Modified \notin Range(StoredDomains)

\* the place of the first element of s that is x
FirstAt(s, x) == SetMin({i \in 1..Len(s) : s[i] = x})

\* C19: GetIPRanges returns the stored originals in insertion order: a new
\* matcher lists the entries it was given in the order given; Add keeps the
\* entries listed before in their places and appends the new ones after them,
\* in the order of the arguments; Remove keeps the entries it does not remove
\* in the order they had
C19_InsertionOrder ==
    LET before == last.before.list
        args   == NonBlankTrimmed(last.args)
        suffix == SubSeq(StoredRanges, Len(before) + 1, Len(StoredRanges))
    IN  /\ (last.op = "NewIPAcl" /\ ~ipacl.isNil) => StoredRanges = args
        /\ last.op = "Add" =>
               /\ IsPrefix(before, StoredRanges)
               /\ Range(suffix) \subseteq Range(args)
               /\ \A i, j \in 1..Len(suffix) :
                      i < j => FirstAt(args, suffix[i]) < FirstAt(args, suffix[j])
        /\ last.op = "Remove" =>
               StoredRanges = Without(before, Range(before) \ Range(StoredRanges))

\* C19, its case: two entries were added after the first in the order of the
\* arguments, and Remove has taken the middle one out of the three
C19_Witness ==
    /\ last.op = "Remove"
    /\ last.before.list = <<Net10, Mapped10, Loop6Full>>
    /\ StoredRanges = <<Net10, Loop6Full>>

\* what reading the list file back gives when the list that was saved is list
ReadBack(list) ==
    IF list = <<>> THEN [list |-> <<>>, err |-> ErrEmptyFile]
    ELSE [list |-> list, err |-> NoErr]

\* C20 as amended: after the matcher's list was saved, reading the file gives
\* the same strings in the same order when the list is not empty, and fails
\* with ErrEmptyFile when it is empty; a matcher made from the file lists what
\* reading the file gives, and there is no matcher when reading fails
C20_SaveThenRead ==
    /\ (last.op = "SaveToFile" /\ last.err = NoErr) =>
           ReadIPList(listFile) = ReadBack(StoredRanges)
    /\ last.op = "NewIPAclFromFile" =>
           LET loaded(r) == IF r.err # NoErr THEN ipacl.isNil /\ last.err = r.err
                            ELSE /\ ~ipacl.isNil
                                 /\ last.err = NoErr
                                 /\ StoredRanges = r.list
           IN  loaded(ReadIPList(listFile))

\* C20, its case: a list of two entries was saved, and the matcher made from
\* the file lists the two in the same order
C20_Witness ==
    /\ last.op = "NewIPAclFromFile"
    /\ last.err = NoErr
    /\ last.before.list = <<Host10, Host10Full>>
    /\ StoredRanges = <<Host10, Host10Full>>

\* C20 as stated: after the matcher's list was saved, reading the file gives
\* the same strings in the same order, for the empty list too
C20_SaveThenReadAnyList ==
    (last.op = "SaveToFile" /\ last.err = NoErr) =>
        /\ ReadIPList(listFile).err = NoErr
        /\ ReadIPList(listFile).list = StoredRanges

\* C21: when NewIPAcl or Add fails, the error is ErrInvalidCIDR when the
\* entry it failed on holds the block delimiter '/', and ErrInvalidIP when it
\* holds none
C21_BlockErrorForBlockText ==
    (last.op \in {"NewIPAcl", "Add"} /\ last.err # NoErr) =>
        LET failed(bad) == last.err = (IF Contains(bad, <<"/">>) THEN ErrInvalidCIDR
                                       ELSE ErrInvalidIP)
        IN  failed(last.args[FirstUnparseable(last.args)])

\* C22: a Check of a text that is not a bare address returns ErrInvalidIP and
\* Denied, a domain Check of a text that normalizes to the empty string returns
\* ErrInvalidDomain and Denied, in both modes, and a Check leaves the list as
\* it was
C22_CheckFailsClosed ==
    /\ last.op = "Check" =>
           /\ StoredRanges = last.before.list
           /\ ParseIPOf[TrimSpace(last.args[1])] = <<>> =>
                  (last.err = ErrInvalidIP /\ last.perm = Denied)
    /\ last.op \in {"DomainACL.Check", "DomainAcl.Check"} =>
           /\ StoredDomains = last.before.list
           /\ CheckedDomain = <<>> =>
                  (last.err = ErrInvalidDomain /\ last.perm = Denied)

\* C22, its case: a blacklist that stores the block "10.0.0.0/8" was asked
\* for the text of the block, and has answered ErrInvalidIP and Denied
C22_Witness ==
    /\ last.op = "Check"
    /\ last.args = <<Net10>>
    /\ last.before.listType = Blacklist
    /\ StoredRanges = <<Net10>>
    /\ last.err = ErrInvalidIP
    /\ last.perm = Denied

\* C27: normalizeDomain cuts the text up to and including its last '@', so no
\* domain a DomainACL stores holds an '@'
C27_CutsAtLastAt ==
    ~dACL.isNil =>
        \A i \in 1..Len(DomainACL_GetDomains(dACL)) :
            ~Contains(DomainACL_GetDomains(dACL)[i], <<"@">>)

\* Add(s) has succeeded for one string s that was not stored before, and the
\* next call is Remove(s) with the same string
AddThenRemoveSame ==
    /\ last.op = "Add"
    /\ last.err = NoErr
    /\ Len(last.args) = 1
    /\ TrimSpace(last.args[1]) \notin Range(last.before.list)
    /\ last'.op = "Remove"
    /\ last'.args = last.args

Queries ==
    {"Check", "GetIPRanges", "SaveToFile", "DomainACL.Check", "DomainACL.GetDomains",
     "DomainAcl.Check", "DomainAcl.GetDomains"}

\* C30: no call on a matcher changes its mode, nor the includeSubdomains flag
\* of a domain matcher (a matcher made from the list file is a new matcher); a
\* query changes no matcher; and a check repeated with the same text right
\* after a check returns the same permission and error
C30_ModeAndListFrame ==
    [][/\ (~ipacl.isNil /\ ~ipacl'.isNil /\ last'.op # "NewIPAclFromFile") =>
              ipacl'.listType = ipacl.listType
       /\ ~dACL.isNil =>
              /\ ~dACL'.isNil
              /\ dACL'.listType = dACL.listType
              /\ dACL'.includeSubdomains = dACL.includeSubdomains
       /\ ~dAcl.isNil =>
              /\ ~dAcl'.isNil
              /\ dAcl'.listType = dAcl.listType
              /\ dAcl'.includeSubdomains = dAcl.includeSubdomains
       /\ last'.op \in Queries => (ipacl' = ipacl /\ dACL' = dACL /\ dAcl' = dAcl)
       /\ (/\ last.op \in {"Check", "DomainACL.Check", "DomainAcl.Check"}
           /\ last'.op = last.op
           /\ last'.args = last.args) =>
              (last'.perm = last.perm /\ last'.err = last.err)]_vars

\* C30, its case: a whitelist was asked to allow a predefined set, has taken
\* the set's blocks into its list, and is a whitelist still
C30_Witness ==
    /\ last.op = "AddPredefinedSet"
    /\ last.allow
    /\ last.err = NoErr
    /\ Len(StoredRanges) > Len(last.before.list)
    /\ last.before.listType = Whitelist
    /\ IPView(ipacl).listType = Whitelist

\* C26: under fair scheduling every call of a Manager method returns
C26_EveryCallReturns ==
    \A p \in Goroutines : (procs[p].pc # "idle") ~> (procs[p].pc = "idle")

\* C26, its case: a goroutine holds the write lock on the path that returns
\* ErrNoAcl, while another goroutine waits inside Lock()
C26_Witness ==
    \E p, q \in Goroutines :
        /\ procs[p].pc = "return"
        /\ procs[p].err = ErrNoAcl
        /\ mu.writer = p
        /\ procs[q].pc = "lock"
        /\ q \in mu.pending

\* the methods that change a matcher or the Manager's pointer to one
Mutating ==
    {"SetDomainACL", "SetIPACL", "SetIPACLFromFile", "SetIPACLWithDefaults", "AddIPFromFile",
     "AddIP", "RemoveIP", "AddPredefinedIPSet", "AddDomain", "RemoveDomain", "Reset"}

\* goroutine p is at a statement that reads or writes a matcher
Inside(p) == procs[p].pc \in {"body", "add", "ip"}

\* C24: a goroutine is at the statements of a mutating method only as the
\* holder of the write lock, with no other goroutine at a statement that
\* touches a matcher, and at those of a query only as a holder of the read
\* lock while no goroutine holds the write lock
C24_LockDiscipline ==
    \A p \in Goroutines :
        Inside(p) =>
            IF procs[p].call.op \in Mutating
            THEN /\ mu.writer = p
                 /\ mu.readers = {}
                 /\ \A q \in Goroutines \ {p} : ~Inside(q)
            ELSE /\ p \in mu.readers
                 /\ mu.writer = 0

\* C24, its case: a goroutine is partway through the loop of an Add under the
\* write lock while another goroutine has called a query and waits for the lock
C24_Witness ==
    \E p, q \in Goroutines :
        /\ procs[p].pc = "add"
        /\ procs[p].rest # <<>>
        /\ Len(procs[p].rest) < Len(procs[p].call.args)
        /\ mu.writer = p
        /\ procs[q].pc = "lock"
        /\ procs[q].call.op \notin Mutating

\* C23: when a CheckIP or CheckDomain evaluates, no goroutine is inside a
\* mutating call, so the matcher it reads holds whole calls only, and the
\* permission it returns is the one of that matcher
C23_CheckSeesWholeCalls ==
    [][\A p \in Goroutines :
           (/\ procs[p].call.op \in {"CheckIP", "CheckDomain"}
            /\ procs[p].pc = "body"
            /\ procs'[p].pc = "return") =>
               /\ mu.writer = 0
               /\ \A q \in Goroutines : Inside(q) => procs[q].call.op \notin Mutating
               /\ ipacl' = ipacl
               /\ dACL' = dACL
               /\ procs'[p].perm =
                      (IF procs[p].call.op = "CheckIP"
                       THEN (IF ipacl.isNil THEN Denied
                             ELSE IPAcl_Check(ipacl, procs[p].call.args[1]).perm)
                       ELSE (IF dACL.isNil THEN Denied
                             ELSE DomainACL_Check(dACL, procs[p].call.args[1]).perm))]_vars

\* C23, its case: a check has evaluated under the read lock while another
\* goroutine has called a mutating method with several entries, which waits
\* for the lock
C23_Witness ==
    \E p, q \in Goroutines :
        /\ procs[p].pc = "return"
        /\ procs[p].call.op \in {"CheckIP", "CheckDomain"}
        /\ procs[p].err = NoErr
        /\ p \in mu.readers
        /\ procs[q].pc = "lock"
        /\ procs[q].call.op \in Mutating
        /\ Len(procs[q].call.args) > 1
        /\ q \in mu.pending

\* what the call of pr answers when its side has no matcher
AnswersNoAcl(pr) ==
    /\ (ipacl.isNil /\ pr.call.op \in {"AddIP", "RemoveIP", "AddPredefinedIPSet",
                                       "AddIPFromFile", "CheckIP", "GetIPACLType"}) =>
           /\ pr.err = ErrNoAcl
           /\ pr.call.op = "CheckIP" => pr.perm = Denied
    /\ (ipacl.isNil /\ pr.call.op = "GetIPRanges") => (pr.err = NoErr /\ pr.list = <<>>)
    /\ (dACL.isNil /\ pr.call.op \in {"AddDomain", "RemoveDomain", "CheckDomain",
                                      "GetDomainACLType"}) =>
           /\ pr.err = ErrNoAcl
           /\ pr.call.op = "CheckDomain" => pr.perm = Denied
    /\ (dACL.isNil /\ pr.call.op = "GetDomains") => (pr.err = NoErr /\ pr.list = <<>>)
    /\ pr.call.op = "Reset" => (ipacl.isNil /\ dACL.isNil)

\* C25: while a side has no matcher every call on it returns ErrNoAcl, CheckIP
\* and CheckDomain with Denied, and the list getters return nil; a returning
\* Reset has left both sides without a matcher; and a side gets a matcher
\* only in a Set call that returns no error
C25_NoAclUntilSet ==
    /\ [](\A p \in Goroutines : procs[p].pc = "return" => AnswersNoAcl(procs[p]))
    /\ [][/\ (ipacl.isNil /\ ~ipacl'.isNil) =>
                 \E p \in Goroutines :
                     /\ procs[p].call.op \in {"SetIPACL", "SetIPACLFromFile",
                                              "SetIPACLWithDefaults"}
                     /\ procs'[p].pc = "return"
                     /\ procs'[p].err = NoErr
          /\ (dACL.isNil /\ ~dACL'.isNil) =>
                 \E p \in Goroutines :
                     /\ procs[p].call.op = "SetDomainACL"
                     /\ procs'[p].pc = "return"
                     /\ procs'[p].err = NoErr]_vars

\* C25, its case: the domain side has a matcher and the IP side has none, and
\* a CheckIP has returned Denied with ErrNoAcl
C25_Witness ==
    \E p \in Goroutines :
        /\ procs[p].pc = "return"
        /\ procs[p].call.op = "CheckIP"
        /\ procs[p].err = ErrNoAcl
        /\ procs[p].perm = Denied
        /\ ipacl.isNil
        /\ ~dACL.isNil

\* C29: a SetIPACL or SetIPACLWithDefaults that returns an error has left the
\* IP matcher as it was; one that returns none has made the list the one of
\* its input: the mode is the requested one, every entry is a requested range
\* or a range of a requested predefined set, and every requested range is in it
C29_SetIsAllOrNothing ==
    [][\A p \in Goroutines :
           (/\ procs'[p].call.op \in {"SetIPACL", "SetIPACLWithDefaults"}
            /\ procs[p].pc # "return"
            /\ procs'[p].pc = "return") =>
               IF procs'[p].err # NoErr THEN ipacl' = ipacl
               ELSE /\ ~ipacl'.isNil
                    /\ ipacl'.listType = procs'[p].call.listType
                    /\ \A i \in 1..Len(ipacl'.ranges) :
                           \/ \E j \in 1..Len(procs'[p].call.args) :
                                  ipacl'.ranges[i].Original = TrimSpace(procs'[p].call.args[j])
                           \/ \E k \in 1..Len(procs'[p].call.sets) :
                                  \E n \in 1..Len(getPredefinedSet(PredefinedSets,
                                                      procs'[p].call.sets[k]).ranges) :
                                      ipacl'.ranges[i].Original =
                                          getPredefinedSet(PredefinedSets,
                                              procs'[p].call.sets[k]).ranges[n]
                    /\ \A j \in 1..Len(procs'[p].call.args) :
                           TrimSpace(procs'[p].call.args[j]) # <<>> =>
                               \E i \in 1..Len(ipacl'.ranges) :
                                   ipacl'.ranges[i].Original =
                                       TrimSpace(procs'[p].call.args[j])]_vars

\* C29, its case: a Set call has returned an error of parsing or of an
\* unknown predefined set, and the matcher set before it is still there with
\* its entries
C29_Witness ==
    \E p \in Goroutines :
        /\ procs[p].pc = "return"
        /\ procs[p].call.op \in {"SetIPACL", "SetIPACLWithDefaults"}
        /\ procs[p].err # NoErr
        /\ ~ipacl.isNil
        /\ Len(ipacl.ranges) > 0

====
